---------------------------- MODULE Spec2Model ----------------------------
(***************************************************************************)
(* Verification model of the seccomp user-notification supervisor          *)
(* (package seccomp in src/internal/server/storage/utils.go): the          *)
(* arch/syscall classifier, the per-syscall emulators, the per-connection  *)
(* receive loop with its workers, and the seccomp policy compiler.         *)
(*                                                                         *)
(* Conventions.                                                            *)
(*  - 32-bit quantities that are compared by bit pattern (audit arch) are  *)
(*    written as the signed value of that pattern, as the C table stores   *)
(*    them in an int.                                                      *)
(*  - errno results are negative integers, as the handlers return them.    *)
(*  - everything outside the process (target memory, /proc, cgroups, the   *)
(*    forksyscall child, ioctls) is an "env" record of outcomes, chosen    *)
(*    nondeterministically when the handler runs.                          *)
(***************************************************************************)
EXTENDS Integers, Sequences, FiniteSets, TLC

VARIABLES
    os,           \* s.s.OS: SeccompListenerContinue (permissive mode), PidFds, PidFdsThread
    conn,         \* state of the one modelled connection's receive loop
    frames,       \* bundles (Iovec) created by the receive loop, in receipt order
    pconf,        \* policy compiler: instance configuration and OS/LXC state
    pout          \* policy compiler: result of seccompGetPolicyContent / CreateProfile

vars == <<os, conn, frames, pconf, pout>>

(***************************************************************************)
(* errno values and flags used by the handlers                             *)
(***************************************************************************)
EPERM == 1
ESRCH == 3
EIO == 5
EINVAL == 22
EFBIG == 27
ENOANO == 55
ENOMEDIUM == 123

seccompUserNotifFlagContinue == 1

S_IFMT == 61440
S_IFCHR == 8192
S_IFBLK == 24576
S_IFREG == 32768

AT_FDCWD == -100

(***************************************************************************)
(* Bit operations on naturals (C's & and |)                                *)
(***************************************************************************)
RECURSIVE BitAnd(_, _)
BitAnd(a, b) ==
    IF a = 0 \/ b = 0 THEN 0
    ELSE (IF a % 2 = 1 /\ b % 2 = 1 THEN 1 ELSE 0) + 2 * BitAnd(a \div 2, b \div 2)

RECURSIVE BitOr(_, _)
BitOr(a, b) ==
    IF a = 0 THEN b
    ELSE IF b = 0 THEN a
    ELSE (IF a % 2 = 1 \/ b % 2 = 1 THEN 1 ELSE 0) + 2 * BitOr(a \div 2, b \div 2)

(***************************************************************************)
(* device_allowed: the mknod allow-set                                     *)
(***************************************************************************)
\* glibc makedev for major < 4096 and minor < 2048, as a 64-bit dev_t
\* [hi, lo]: the low eight minor bits stay in place, the higher minor bits
\* move above the major.
makedev(major, minor) ==
    [hi |-> 0, lo |-> (major * 256) + (minor % 256) + ((minor \div 256) * 1048576)]

\* An allow-set that looks at the device number alone.
device_allowed_any_mode(dev, mode) ==
    IF dev \in {makedev(0, 0), makedev(5, 1), makedev(1, 7), makedev(1, 3), makedev(1, 8),
                makedev(5, 0), makedev(1, 9), makedev(1, 5)}
    THEN 0 ELSE -EPERM

device_allowed(dev, mode) ==
    IF BitAnd(mode, S_IFMT) = S_IFCHR
    THEN IF dev = makedev(0, 0) THEN 0        \* whiteout
         ELSE IF dev = makedev(5, 1) THEN 0   \* /dev/console
         ELSE IF dev = makedev(1, 7) THEN 0   \* /dev/full
         ELSE IF dev = makedev(1, 3) THEN 0   \* /dev/null
         ELSE IF dev = makedev(1, 8) THEN 0   \* /dev/random
         ELSE IF dev = makedev(5, 0) THEN 0   \* /dev/tty
         ELSE IF dev = makedev(1, 9) THEN 0   \* /dev/urandom
         ELSE IF dev = makedev(1, 5) THEN 0   \* /dev/zero
         ELSE -EPERM
    ELSE -EPERM

(***************************************************************************)
(* The arch/syscall table and the classifier                               *)
(***************************************************************************)
AUDIT_ARCH_X86_64 == -1073741762
AUDIT_ARCH_I386 == 1073741827
AUDIT_ARCH_AARCH64 == -1073741641
AUDIT_ARCH_ARM == 1073741864
AUDIT_ARCH_ARMEB == 40
AUDIT_ARCH_S390 == 22
AUDIT_ARCH_S390X == -2147483626
AUDIT_ARCH_PPC == 20
AUDIT_ARCH_PPC64 == -2147483627
AUDIT_ARCH_PPC64LE == -1073741803
AUDIT_ARCH_RISCV64 == -1073741581
AUDIT_ARCH_SPARC == 2
AUDIT_ARCH_SPARC64 == -2147483605
AUDIT_ARCH_MIPS == 8
AUDIT_ARCH_MIPSEL == 1073741832
AUDIT_ARCH_MIPS64 == -2147483640
AUDIT_ARCH_MIPS64N32 == -1610612728
AUDIT_ARCH_MIPSEL64 == -1073741816
AUDIT_ARCH_MIPSEL64N32 == -536870904
AUDIT_ARCH_LOONGARCH64 == -1073741566

INCUS_SECCOMP_NOTIFY_MKNOD == 0
INCUS_SECCOMP_NOTIFY_MKNODAT == 1
INCUS_SECCOMP_NOTIFY_SETXATTR == 2
INCUS_SECCOMP_NOTIFY_MOUNT == 3
INCUS_SECCOMP_NOTIFY_BPF == 4
INCUS_SECCOMP_NOTIFY_SCHED_SETSCHEDULER == 5
INCUS_SECCOMP_NOTIFY_SYSINFO == 6

ArchRow(a, mknod, mknodat, setxattr, mount, bpf, sched, sysinfo) ==
    [arch |-> a, nr_mknod |-> mknod, nr_mknodat |-> mknodat,
     nr_setxattr |-> setxattr, nr_mount |-> mount, nr_bpf |-> bpf,
     nr_sched_setscheduler |-> sched, nr_sysinfo |-> sysinfo]

seccomp_notify_syscall_table ==
    << ArchRow(-1, INCUS_SECCOMP_NOTIFY_MKNOD, INCUS_SECCOMP_NOTIFY_MKNODAT,
               INCUS_SECCOMP_NOTIFY_SETXATTR, INCUS_SECCOMP_NOTIFY_MOUNT,
               INCUS_SECCOMP_NOTIFY_BPF, INCUS_SECCOMP_NOTIFY_SCHED_SETSCHEDULER,
               INCUS_SECCOMP_NOTIFY_SYSINFO),
       ArchRow(AUDIT_ARCH_X86_64,      133, 259, 188, 165, 321, 144, 99),
       ArchRow(AUDIT_ARCH_I386,         14, 297, 226,  21, 357, 156, 116),
       ArchRow(AUDIT_ARCH_AARCH64,      -1,  33,   5,  40, 280, 119, 179),
       ArchRow(AUDIT_ARCH_ARM,          14, 324, 226,  21, 386, 156, 116),
       ArchRow(AUDIT_ARCH_ARMEB,        14, 324, 226,  21, 386, 156, 116),
       ArchRow(AUDIT_ARCH_S390,         14, 290, 224,  21, 351, 156, 116),
       ArchRow(AUDIT_ARCH_S390X,        14, 290, 224,  21, 351, 156, 116),
       ArchRow(AUDIT_ARCH_PPC,          14, 288, 209,  21, 361, 156, 116),
       ArchRow(AUDIT_ARCH_PPC64,        14, 288, 209,  21, 361, 156, 116),
       ArchRow(AUDIT_ARCH_PPC64LE,      14, 288, 209,  21, 361, 156, 116),
       ArchRow(AUDIT_ARCH_RISCV64,      -1,  33,   5,  40, 280, 119, 179),
       ArchRow(AUDIT_ARCH_SPARC,        14, 286, 169, 167, 349, 243, 214),
       ArchRow(AUDIT_ARCH_SPARC64,      14, 286, 169, 167, 349, 243, 214),
       ArchRow(AUDIT_ARCH_MIPS,         14, 290, 224,  21,  -1, 141, 4116),
       ArchRow(AUDIT_ARCH_MIPSEL,       14, 290, 224,  21,  -1, 141, 4116),
       ArchRow(AUDIT_ARCH_MIPS64,      131, 249, 180, 160,  -1, 141, 5097),
       ArchRow(AUDIT_ARCH_MIPS64N32,   131, 253, 180, 160,  -1, 141, 4116),
       ArchRow(AUDIT_ARCH_MIPSEL64,    131, 249, 180, 160,  -1, 141, 5097),
       ArchRow(AUDIT_ARCH_MIPSEL64N32, 131, 253, 180, 160,  -1, 141, 4116),
       ArchRow(AUDIT_ARCH_LOONGARCH64,  -1,  33,   5,  40, 280, 119, 179) >>

\* The slot of a row that belongs to a logical category.
Slot(entry, cat) ==
    CASE cat = INCUS_SECCOMP_NOTIFY_MKNOD -> entry.nr_mknod
      [] cat = INCUS_SECCOMP_NOTIFY_MKNODAT -> entry.nr_mknodat
      [] cat = INCUS_SECCOMP_NOTIFY_SETXATTR -> entry.nr_setxattr
      [] cat = INCUS_SECCOMP_NOTIFY_MOUNT -> entry.nr_mount
      [] cat = INCUS_SECCOMP_NOTIFY_BPF -> entry.nr_bpf
      [] cat = INCUS_SECCOMP_NOTIFY_SCHED_SETSCHEDULER -> entry.nr_sched_setscheduler
      [] cat = INCUS_SECCOMP_NOTIFY_SYSINFO -> entry.nr_sysinfo

\* A loop body that leaves out the comparison of the last slot.
MatchEntrySkippingSysinfo(entry, nr) ==
    IF entry.nr_mknod = nr THEN INCUS_SECCOMP_NOTIFY_MKNOD
    ELSE IF entry.nr_mknodat = nr THEN INCUS_SECCOMP_NOTIFY_MKNODAT
    ELSE IF entry.nr_setxattr = nr THEN INCUS_SECCOMP_NOTIFY_SETXATTR
    ELSE IF entry.nr_mount = nr THEN INCUS_SECCOMP_NOTIFY_MOUNT
    ELSE IF entry.nr_bpf = nr THEN INCUS_SECCOMP_NOTIFY_BPF
    ELSE IF entry.nr_sched_setscheduler = nr THEN INCUS_SECCOMP_NOTIFY_SCHED_SETSCHEDULER
    ELSE -EINVAL

\* The body of the loop for the first row whose arch equals the request's:
\* the slots are compared in declaration order, then the loop breaks.
MatchEntry(entry, nr) ==
    IF entry.nr_mknod = nr THEN INCUS_SECCOMP_NOTIFY_MKNOD
    ELSE IF entry.nr_mknodat = nr THEN INCUS_SECCOMP_NOTIFY_MKNODAT
    ELSE IF entry.nr_setxattr = nr THEN INCUS_SECCOMP_NOTIFY_SETXATTR
    ELSE IF entry.nr_mount = nr THEN INCUS_SECCOMP_NOTIFY_MOUNT
    ELSE IF entry.nr_bpf = nr THEN INCUS_SECCOMP_NOTIFY_BPF
    ELSE IF entry.nr_sched_setscheduler = nr THEN INCUS_SECCOMP_NOTIFY_SCHED_SETSCHEDULER
    ELSE IF entry.nr_sysinfo = nr THEN INCUS_SECCOMP_NOTIFY_SYSINFO
    ELSE -EINVAL

\* A classifier that looks the number up in every row, whatever the arch.
get_syscall_any_arch(req, resp) ==
    [ret |-> IF \E i \in 1..Len(seccomp_notify_syscall_table) :
                   MatchEntry(seccomp_notify_syscall_table[i], req.nr) # -EINVAL
             THEN MatchEntry(seccomp_notify_syscall_table[
                      CHOOSE i \in 1..Len(seccomp_notify_syscall_table) :
                         MatchEntry(seccomp_notify_syscall_table[i], req.nr) # -EINVAL],
                      req.nr)
             ELSE -EINVAL,
     resp |-> [id |-> req.id, val |-> 0, error |-> 0, flags |-> req.flags]]

\* seccomp_notify_get_syscall: the response is reset from the request, then
\* the table is scanned. Returns the category (or -EINVAL) and the response.
seccomp_notify_get_syscall(req, resp) ==
    LET hits == {i \in 1..Len(seccomp_notify_syscall_table) :
                    seccomp_notify_syscall_table[i].arch = req.arch}
        first == CHOOSE i \in hits : \A j \in hits : i <= j
        newresp == [id |-> req.id, val |-> 0, error |-> 0, flags |-> req.flags]
    IN  [ret |-> IF hits = {} THEN -EINVAL
                 ELSE MatchEntry(seccomp_notify_syscall_table[first], req.nr),
         resp |-> newresp]

\* An update that stores the errno and leaves the flags as they were.
update_response_without_flags(resp, new_neg_errno, flags) ==
    [resp EXCEPT !.error = new_neg_errno]

\* seccomp_notify_update_response
seccomp_notify_update_response(resp, new_neg_errno, flags) ==
    [resp EXCEPT !.error = new_neg_errno, !.flags = BitOr(resp.flags, flags)]

(***************************************************************************)
(* Handler results.  A handler returns the errno for the reply, the        *)
(* response it may have updated, and the trace of the external operations  *)
(* it performed, in program order.  panic marks a Go run-time panic        *)
(* raised inside the handler.                                              *)
(***************************************************************************)
Op(name, a) == [op |-> name, a |-> a]

\* A read of the target's memory with the bytes it left in the buffer, and a
\* run of the bridge with what the child left on exit.
OpData(name, a, data) == [op |-> name, a |-> a, data |-> data]

Res(ret, resp, ops) == [ret |-> ret, resp |-> resp, ops |-> ops, panic |-> FALSE]

Panic(resp, ops) == [ret |-> 0, resp |-> resp, ops |-> ops, panic |-> TRUE]

\* seccomp_notify_update_response(resp, 0, CONTINUE); return 0
Continue(resp, ops) ==
    Res(0, seccomp_notify_update_response(resp, 0, seccompUserNotifFlagContinue), ops)

\* if s.s.OS.SeccompListenerContinue { ...CONTINUE; return 0 }; return errno
ContinueOr(cont, errno, resp, ops) ==
    IF cont THEN Continue(resp, ops) ELSE Res(errno, resp, ops)

(***************************************************************************)
(* System-call arguments are unsigned 64-bit registers.  An argument is    *)
(* the record [hi, lo] of its two 32-bit halves, each written as the       *)
(* signed value of its bit pattern.                                        *)
(***************************************************************************)
U64(hi, lo) == [hi |-> hi, lo |-> lo]

\* A small non-negative value.
Small(n) == U64(0, n)

\* Arguments are indexed from 0 in the source.
Arg(req, i) == req.args[i + 1]

\* int32(x): the low half, read as signed.
Int32(x) == x.lo

\* int(x) < 0 for the 64-bit Go int: the sign bit of the high half.
IsNegInt64(x) == x.hi < 0

\* C.mode_t(x): the low half as an unsigned number; bit 31, which no file
\* type mask reads, is dropped so that the value stays a natural.
ModeT(x) == IF x.lo >= 0 THEN x.lo ELSE (x.lo + 2147483647) + 1

(***************************************************************************)
(* strconv.Atoi on a string given as a sequence of one-character strings   *)
(***************************************************************************)
DigitVal(ch) ==
    CASE ch = "0" -> 0 [] ch = "1" -> 1 [] ch = "2" -> 2 [] ch = "3" -> 3
      [] ch = "4" -> 4 [] ch = "5" -> 5 [] ch = "6" -> 6 [] ch = "7" -> 7
      [] ch = "8" -> 8 [] ch = "9" -> 9 [] OTHER -> -1

RECURSIVE DigitsVal(_, _)
DigitsVal(str, acc) ==
    IF str = <<>> THEN acc
    ELSE IF DigitVal(Head(str)) < 0 THEN -1
    ELSE DigitsVal(Tail(str), acc * 10 + DigitVal(Head(str)))

Atoi(str) ==
    LET signed == str # <<>> /\ Head(str) \in {"-", "+"}
        digits == IF signed THEN Tail(str) ELSE str
        n == IF digits = <<>> THEN -1 ELSE DigitsVal(digits, 0)
    IN  IF n < 0 THEN [ok |-> FALSE, n |-> 0]
        ELSE [ok |-> TRUE, n |-> IF signed /\ Head(str) = "-" THEN -n ELSE n]

\* The errno a handler derives from the forksyscall child: exit 0 is success;
\* otherwise stderr is parsed, and ENOANO or a parse failure become -EPERM.
ForkErrno(b) ==
    IF b.exit0 THEN 0
    ELSE LET p == Atoi(b.stderr)
         IN  IF ~p.ok \/ p.n = ENOANO THEN -EPERM ELSE -p.n

(***************************************************************************)
(* mknod / mknodat                                                         *)
(***************************************************************************)
\* CallForkmknod: the caller's ids are read first; without them no child runs.
CallForkmknod(dev, env) ==
    IF env.taskids.err
    THEN [errno |-> -EPERM, ops |-> << Op("taskids", env.taskids) >>]
    ELSE [errno |-> ForkErrno(env.bridge),
          ops |-> << Op("taskids", env.taskids),
                     OpData("bridge", [sub |-> "mknod", path |-> dev.path,
                                       mode_t |-> dev.mode_t, dev_t |-> dev.dev_t,
                                       uid |-> env.taskids.uid, gid |-> env.taskids.gid,
                                       fsuid |-> env.taskids.fsuid,
                                       fsgid |-> env.taskids.fsgid],
                            env.bridge) >>]

doDeviceInsertOnAnyError(args, resp, env, ops) ==
    LET dev == [path |-> args.path, mode_t |-> args.cMode, dev_t |-> args.cDev]
        fork == CallForkmknod(dev, env)
    IN  IF fork.errno = 0
        THEN Res(fork.errno, resp, ops \o fork.ops)
        ELSE IF env.insertErr
             THEN Res(-EPERM, resp, ops \o fork.ops \o << Op("insert", "err") >>)
             ELSE Res(0, resp, ops \o fork.ops \o << Op("insert", "ok") >>)

doDeviceSyscall(args, resp, env, ops) ==
    LET dev == [path |-> args.path, mode_t |-> args.cMode, dev_t |-> args.cDev]
        fork == CallForkmknod(dev, env)
    IN  IF fork.errno # -ENOMEDIUM
        THEN Res(fork.errno, resp, ops \o fork.ops)
        ELSE IF env.insertErr
             THEN Res(-EPERM, resp, ops \o fork.ops \o << Op("insert", "err") >>)
             ELSE Res(0, resp, ops \o fork.ops \o << Op("insert", "ok") >>)

HandleMknodSyscall(cont, siov, env) ==
    IF device_allowed(Arg(siov.req, 2), ModeT(Arg(siov.req, 1))) < 0
    THEN IF cont THEN Continue(siov.resp, <<>>)
         ELSE Res(siov.resp.error, siov.resp, <<>>)
    ELSE IF env.preadFail = 1
         THEN ContinueOr(cont, -EPERM, siov.resp, << Op("pread", "err") >>)
         ELSE doDeviceSyscall([cMode |-> ModeT(Arg(siov.req, 1)), cDev |-> Arg(siov.req, 2),
                               path |-> env.path],
                              siov.resp, env, << Op("pread", "ok") >>)

HandleMknodatDeviceFirst(cont, siov, env) ==
    LET resp1 == [siov.resp EXCEPT
                     !.error = device_allowed(Arg(siov.req, 3), ModeT(Arg(siov.req, 2)))]
    IN  IF resp1.error # 0
        THEN IF cont THEN Continue(resp1, <<>>)
             ELSE Res(resp1.error, resp1, <<>>)
        ELSE IF Int32(Arg(siov.req, 0)) # AT_FDCWD
        THEN ContinueOr(cont, -EINVAL, siov.resp, <<>>)
        ELSE IF env.preadFail = 1
        THEN ContinueOr(cont, -EPERM, resp1, << Op("pread", "err") >>)
        ELSE doDeviceSyscall([cMode |-> ModeT(Arg(siov.req, 2)),
                              cDev |-> Arg(siov.req, 3), path |-> env.path],
                             resp1, env, << Op("pread", "ok") >>)

HandleMknodatSyscall(cont, siov, env) ==
    IF Int32(Arg(siov.req, 0)) # AT_FDCWD
    THEN ContinueOr(cont, -EINVAL, siov.resp, <<>>)
    ELSE LET resp1 == [siov.resp EXCEPT
                          !.error = device_allowed(Arg(siov.req, 3), ModeT(Arg(siov.req, 2)))]
         IN  IF resp1.error # 0
             THEN IF cont THEN Continue(resp1, <<>>)
                  ELSE Res(resp1.error, resp1, <<>>)
             ELSE IF env.preadFail = 1
                  THEN ContinueOr(cont, -EPERM, resp1, << Op("pread", "err") >>)
                  ELSE doDeviceSyscall([cMode |-> ModeT(Arg(siov.req, 2)),
                                        cDev |-> Arg(siov.req, 3), path |-> env.path],
                                       resp1, env, << Op("pread", "ok") >>)

(***************************************************************************)
(* Identity map of the instance: one range, container id 0 upwards mapped  *)
(* to host ids hostid upwards.  ShiftFromNS takes a host id to the id seen *)
(* in the container, ShiftIntoNS the other way; -1 when unmapped.          *)
(***************************************************************************)
\* A shift that takes every host id to the root of the namespace.
ShiftAlwaysRoot(idmap, id) == 0

ShiftFromNS(idmap, id) ==
    IF id >= idmap.hostid /\ id < idmap.hostid + idmap.maprange
    THEN id - idmap.hostid ELSE -1

ShiftIntoNS(idmap, id) ==
    IF id >= 0 /\ id < idmap.maprange THEN id + idmap.hostid ELSE -1

(***************************************************************************)
(* setxattr                                                                *)
(***************************************************************************)
\* The size bytes pread leaves in buf: the bytes found in the target's
\* memory, zero-filled up to size when the read is short.
ReadBytes(mem, size) ==
    [k \in 1..size |-> IF k <= Len(mem) THEN mem[k] ELSE "\\0"]

WhiteoutByNameOnly(name, value) == name = "trusted.overlay.opaque"

\* string(args.name) == "trusted.overlay.opaque" && string(args.value) == "y"
IsOverlayWhiteout(name, value) == name = "trusted.overlay.opaque" /\ value = << "y" >>

HandleSetxattrSyscall(cont, c, siov, env) ==
    LET resp == siov.resp
        nsuid == ShiftFromNS(c.idmap, env.taskids.uid)
        nsgid == ShiftFromNS(c.idmap, env.taskids.gid)
        nsfsuid == ShiftFromNS(c.idmap, env.taskids.fsuid)
        nsfsgid == ShiftFromNS(c.idmap, env.taskids.fsgid)
        size == Arg(siov.req, 3)
        ops2 == << Op("taskids", env.taskids), Op("pread", "path"),
                   OpData("pread", "name", env.name) >>
        value == ReadBytes(env.value, size.lo)
        whiteout == IF IsOverlayWhiteout(env.name, value) THEN 1 ELSE 0
        call == OpData("bridge", [sub |-> "setxattr", nsuid |-> nsuid, nsgid |-> nsgid,
                                  nsfsuid |-> nsfsuid, nsfsgid |-> nsfsgid,
                                  name |-> env.name, path |-> env.path,
                                  flags |-> Int32(Arg(siov.req, 4)),
                                  whiteout |-> whiteout, size |-> size.lo,
                                  value |-> value],
                       env.bridge)
    IN  IF env.taskids.err
        THEN ContinueOr(cont, -EPERM, resp, << Op("taskids", env.taskids) >>)
        ELSE IF c.idmapErr
        THEN ContinueOr(cont, -EINVAL, resp, << Op("taskids", env.taskids) >>)
        ELSE IF env.preadFail = 1
        THEN ContinueOr(cont, -EPERM, resp, << Op("taskids", env.taskids), Op("pread", "err") >>)
        ELSE IF env.preadFail = 2
        THEN ContinueOr(cont, -EPERM, resp,
                        << Op("taskids", env.taskids), Op("pread", "path"), Op("pread", "err") >>)
        \* make([]byte, size) with a negative size, or &buf[0] of an empty slice
        ELSE IF IsNegInt64(size) \/ size.lo = 0
        THEN Panic(resp, ops2)
        ELSE IF env.preadFail = 3
        THEN ContinueOr(cont, -EPERM, resp, ops2 \o << Op("pread", "err") >>)
        ELSE IF whiteout = 0 /\ cont
        THEN Continue(resp, ops2 \o << OpData("pread", "value", value) >>)
        ELSE Res(ForkErrno(env.bridge), resp,
                 ops2 \o << OpData("pread", "value", value), call >>)

(***************************************************************************)
(* sched_setscheduler                                                      *)
(***************************************************************************)
HandleSchedSetschedulerSyscall(cont, c, siov, env) ==
    LET resp == siov.resp
        nsuid == ShiftFromNS(c.idmap, env.taskids.uid)
        nsgid == ShiftFromNS(c.idmap, env.taskids.gid)
        target == Arg(siov.req, 0)
        self == target.hi = 0 /\ target.lo = 0
        \* args.policy is still the zero value when it is tested
        policyAtCheck == 0
        policy == Int32(Arg(siov.req, 1))
        call == OpData("bridge", [sub |-> "sched_setscheduler", pidCaller |-> siov.req.pid,
                                  switchPidns |-> IF self THEN 0 ELSE 1,
                                  pidTarget |-> IF self THEN Small(siov.req.pid) ELSE target,
                                  policy |-> policy, schedPriority |-> env.schedPriority],
                       env.bridge)
    IN  IF env.taskids.err
        THEN ContinueOr(cont, -EPERM, resp, << Op("taskids", env.taskids) >>)
        ELSE IF c.idmapErr
        THEN ContinueOr(cont, -EINVAL, resp, << Op("taskids", env.taskids) >>)
        ELSE IF nsuid # 0 \/ nsgid # 0
        THEN ContinueOr(cont, -EINVAL, resp, << Op("taskids", env.taskids) >>)
        ELSE IF IsNegInt64(target)
        THEN ContinueOr(cont, -EINVAL, resp, << Op("taskids", env.taskids) >>)
        ELSE IF policyAtCheck < 0
        THEN ContinueOr(cont, -EINVAL, resp, << Op("taskids", env.taskids) >>)
        ELSE IF env.preadFail = 1
        THEN ContinueOr(cont, -EPERM, resp, << Op("taskids", env.taskids), Op("pread", "err") >>)
        ELSE Res(ForkErrno(env.bridge), resp,
                 << Op("taskids", env.taskids), Op("pread", "sched_param"), call >>)

(***************************************************************************)
(* sysinfo.  env.sysFail names the first step that fails (0: none), in     *)
(* program order; env.statFields is the number of fields of the init       *)
(* process's stat line; env.swap is CGInfo.Supports(MemorySwapUsage).      *)
(***************************************************************************)
ARCH_64BIT_INTEL_X86 == 2

\* Architecture() of a 32-bit x86 instance: any value other than
\* ARCH_64BIT_INTEL_X86 takes the same branch of the comparison.
ARCH_32BIT_INTEL_X86 == 1

StepSysinfo == 1
StepCgroup == 2
StepStat == 3
StepParseTick == 4
StepPids == 5
StepMemStats == 6
StepMemLimit == 7
StepMemUsage == 8
StepSwapLimit == 9
StepSwapUsage == 10
StepPwrite == 11

\* The index fields[21] needs at least this many fields.
StatFieldsNeeded == 22

\* An emulator that writes the struct and then lets the target run its own
\* sysinfo all the same.
SysinfoAlwaysContinue(c, siov, env) ==
    Continue(siov.resp,
             << Op("sysinfo", "host"), Op("cgroup", "read"), Op("proc", "stat"),
                Op("pwrite", [layout |-> "native", unit |-> 1, err |-> FALSE]) >>)

\* An emulator that replies success whatever became of its pwrite.
SysinfoIgnoringPwriteError(c, siov, env) ==
    Res(0, siov.resp,
        << Op("sysinfo", "host"), Op("cgroup", "read"), Op("proc", "stat"),
           Op("pwrite", [layout |-> "native", unit |-> 1,
                         err |-> env.sysFail = StepPwrite]) >>)

\* The unit the memory figures are scaled by: pages for a 32-bit caller on a
\* 64-bit x86 instance, bytes otherwise.
SysinfoUnitAlwaysBytes(c, req) == 1

SysinfoUnit(c, req) ==
    IF c.arch = ARCH_64BIT_INTEL_X86 /\ req.arch = AUDIT_ARCH_I386 THEN 4096 ELSE 1

\* The struct layout written back to the caller.
SysinfoLayout(c, req) ==
    IF c.arch = ARCH_64BIT_INTEL_X86 /\ req.arch = AUDIT_ARCH_I386 THEN "native32" ELSE "native"

\* uint64 arithmetic on the cgroup's byte counts.  A uint64 is held as the
\* int64 with the same bits, so a negative number n stands for 2^64 + n;
\* with counts this small a subtraction wraps at most once.
Uint64Sub(a, b) == a - b

\* The order of two uint64 values held that way.
Uint64LessEq(a, b) == IF (a < 0) = (b < 0) THEN a <= b ELSE b < 0

\* instMetrics.Totalram, .Bufferram and .Freeram from the cgroup's memory
\* limit, usage and cache.
SysinfoMemory(mem) ==
    LET Totalram == mem.limit
        Bufferram == mem.cache
    IN  [totalram |-> Totalram, bufferram |-> Bufferram,
         freeram |-> Uint64Sub(Uint64Sub(Totalram, mem.usage), Bufferram)]

HandleSysinfoSyscall(c, siov, env) ==
    LET resp == siov.resp
        m == SysinfoMemory(env.mem)
        unit == SysinfoUnit(c, siov.req)
        layout == SysinfoLayout(c, siov.req)
        f == env.sysFail
        swapFail == env.swap /\ f \in {StepSwapLimit, StepSwapUsage}
        reads == << Op("sysinfo", "host"), Op("cgroup", "read"), Op("proc", "stat") >>
    IN  IF f = StepSysinfo THEN Continue(resp, << Op("sysinfo", "err") >>)
        ELSE IF f = StepCgroup THEN Continue(resp, << Op("sysinfo", "host") >>)
        ELSE IF f = StepStat
        THEN Continue(resp, << Op("sysinfo", "host"), Op("cgroup", "read") >>)
        ELSE IF env.statFields < StatFieldsNeeded THEN Panic(resp, reads)
        ELSE IF f \in {StepParseTick, StepPids, StepMemStats, StepMemLimit, StepMemUsage}
        THEN Continue(resp, reads)
        ELSE IF swapFail THEN Continue(resp, reads)
        ELSE IF f = StepPwrite
        THEN Continue(resp, reads \o << Op("pwrite", [layout |-> layout, unit |-> unit,
                                                      totalram |-> m.totalram,
                                                      freeram |-> m.freeram,
                                                      err |-> TRUE]) >>)
        ELSE Res(0, resp, reads \o << Op("pwrite", [layout |-> layout, unit |-> unit,
                                                    totalram |-> m.totalram,
                                                    freeram |-> m.freeram,
                                                    err |-> FALSE]) >>)

(***************************************************************************)
(* bpf.  handle_bpf_syscall is the C part; env.bpfFail names the external  *)
(* call that fails ("none": all succeed) and env.errno its errno.          *)
(***************************************************************************)
BPF_PROG_LOAD == 5
BPF_PROG_ATTACH == 8
BPF_PROG_DETACH == 9
BPF_PROG_TYPE_CGROUP_DEVICE == 15
BPF_CGROUP_DEVICE == 6
MaxBpfInsns == 1000000

\* sizeof(union bpf_attr) of the build
SizeofBpfAttr == 144

\* Returns [ret, val, ops]: the C return value, resp->val, and the trace.
handle_bpf_syscall(pid_target, tgid, req, env, pidfdThread) ==
    LET attr == env.bpfAttr
        cmdArg == Arg(req, 0)
        lenArg == Arg(req, 2)
        f == env.bpfFail
        e == -env.errno
        R(ret, val, ops) == [ret |-> ret, val |-> val, ops |-> ops]
        openPid == IF pidfdThread THEN pid_target ELSE tgid
        \* pidfd_open of a pid <= 0 is refused with EINVAL
        openErr == IF openPid <= 0 THEN -EINVAL
                   ELSE IF f = "pidfd_open" THEN e ELSE 0
        o1 == << OpData("pread", "bpf_attr", attr) >>
        o2 == o1 \o << Op("pidfd_open", openPid) >>
        o3 == o2 \o << Op("ioctl_id_valid", "ok") >>
        getfd == o3 \o << Op("pidfd_getfd", "target_fd"), Op("pidfd_getfd", "attach_bpf_fd") >>
        checkLeader == ~pidfdThread /\ tgid # pid_target
        attach(c) ==
            IF attr.attach_type # BPF_CGROUP_DEVICE THEN R(-EINVAL, 0, o3)
            ELSE IF f = "getfd_target"
            THEN R(e, 0, o3 \o << Op("pidfd_getfd", "err") >>)
            ELSE IF f = "getfd_attach"
            THEN R(e, 0, o3 \o << Op("pidfd_getfd", "target_fd"), Op("pidfd_getfd", "err") >>)
            ELSE IF checkLeader /\ f = "not_shared"
            THEN R(-EINVAL, 0, getfd \o << Op("filetable_shared", FALSE) >>)
            ELSE IF checkLeader /\ f = "leader_dead"
            THEN R(-EINVAL, 0, getfd \o << Op("filetable_shared", TRUE),
                                          Op("process_still_alive", FALSE) >>)
            ELSE LET chk == IF checkLeader
                            THEN << Op("filetable_shared", TRUE),
                                    Op("process_still_alive", TRUE) >>
                            ELSE <<>>
                 IN  R(IF f = "bpf" THEN -1 ELSE 0, 0,
                       getfd \o chk \o << Op("bpf", c) >>)
    IN  IF lenArg.hi # 0 \/ lenArg.lo < 0 \/ SizeofBpfAttr < lenArg.lo
        THEN R(-EFBIG, 0, <<>>)
        ELSE IF cmdArg.hi # 0 \/ cmdArg.lo \notin {BPF_PROG_LOAD, BPF_PROG_ATTACH, BPF_PROG_DETACH}
        THEN R(-EINVAL, 0, <<>>)
        ELSE IF f = "pread_attr" THEN R(e, 0, << Op("pread", "err") >>)
        ELSE IF openErr # 0 THEN R(openErr, 0, o1 \o << Op("pidfd_open", "err") >>)
        ELSE IF f = "id_valid" THEN R(e, 0, o2 \o << Op("ioctl_id_valid", "err") >>)
        ELSE IF cmdArg.lo = BPF_PROG_LOAD
        THEN IF attr.prog_type # BPF_PROG_TYPE_CGROUP_DEVICE THEN R(-EINVAL, 0, o3)
             ELSE IF attr.insn_cnt > MaxBpfInsns THEN R(-EINVAL, 0, o3)
             ELSE IF f = "pread_insn" THEN R(e, 0, o3 \o << Op("pread", "err") >>)
             ELSE IF f = "short_insn" THEN R(-EIO, 0, o3 \o << Op("pread", "short") >>)
             ELSE LET o4 == o3 \o << Op("pread", "insns") >>
                      o5 == IF attr.license
                            THEN o4 \o << Op("pread", "license") >> ELSE o4
                  IN  IF attr.license /\ f = "pread_license"
                      THEN R(e, 0, o4 \o << Op("pread", "err") >>)
                      ELSE IF f = "bpf"
                      THEN R(e, 0, o5 \o << Op("bpf", BPF_PROG_LOAD) >>
                                   \o (IF attr.log_size > 0
                                       THEN << Op("pwrite", "log_buf") >> ELSE <<>>))
                      ELSE IF f = "addfd"
                      THEN R(e, 0, o5 \o << Op("bpf", BPF_PROG_LOAD),
                                           Op("ioctl_addfd", "err") >>)
                      ELSE R(0, env.addedFd, o5 \o << Op("bpf", BPF_PROG_LOAD),
                                                    Op("ioctl_addfd", env.addedFd) >>)
        ELSE attach(cmdArg.lo)

HandleBpfWithoutOptIn(o, c, siov, env) ==
    LET resp == siov.resp
        outerTgid == IF o.PidFdsThread THEN -1 ELSE 0
        r == handle_bpf_syscall(siov.req.pid, outerTgid, siov.req, env, o.PidFdsThread)
        ops == (IF o.PidFdsThread THEN <<>> ELSE << Op("findtgid", env.tgid) >>)
               \o r.ops
               \o << OpData("handle_bpf_syscall", r.ret,
                            [pid_target |-> siov.req.pid, tgid |-> outerTgid]) >>
    IN  IF ~o.PidFdsThread /\ (env.tgidErr \/ env.tgid = -1)
        THEN Continue(resp, << Op("findtgid", "err") >>)
        ELSE IF r.ret < 0 THEN Continue([resp EXCEPT !.val = r.val], ops)
        ELSE Res(0, [resp EXCEPT !.val = r.val], ops)

\* HandleBpfSyscall.  The tgid found by FindTGID is assigned to a variable
\* declared inside the else block; the tgid handed to the C function is the
\* outer one, which is -1 with thread pidfds and still zero otherwise.
HandleBpfSyscall(o, c, siov, env) ==
    LET resp == siov.resp
        outerTgid == IF o.PidFdsThread THEN -1 ELSE 0
        r == handle_bpf_syscall(siov.req.pid, outerTgid, siov.req, env, o.PidFdsThread)
        ops == (IF o.PidFdsThread THEN <<>> ELSE << Op("findtgid", env.tgid) >>)
               \o r.ops
               \o << OpData("handle_bpf_syscall", r.ret,
                            [pid_target |-> siov.req.pid, tgid |-> outerTgid]) >>
    IN  IF ~c.bpfDevices THEN Continue(resp, <<>>)
        ELSE IF ~o.PidFdsThread /\ (env.tgidErr \/ env.tgid = -1)
        THEN Continue(resp, << Op("findtgid", "err") >>)
        ELSE IF r.ret < 0 THEN Continue([resp EXCEPT !.val = r.val], ops)
        ELSE Res(0, [resp EXCEPT !.val = r.val], ops)

(***************************************************************************)
(* mount                                                                   *)
(***************************************************************************)
\* Go maps as functions on a finite set of keys; a missing key reads "".
EmptyMap == [k \in {} |-> ""]

MapPut(m, k, v) == [x \in (DOMAIN m) \cup {k} |-> IF x = k THEN v ELSE m[x]]

MapGet(m, k) == IF k \in DOMAIN m THEN m[k] ELSE ""

\* The comma lists of the configuration are kept split: mount.fuse is the
\* list of its entries, each the list of its "="-separated fields, and
\* mount.allowed the list of its names.  The empty string splits into one
\* empty entry.
RECURSIVE FuseEntries(_, _)
FuseEntries(entries, m) ==
    IF entries = <<>> THEN [err |-> FALSE, fsMap |-> m]
    ELSE IF Len(Head(entries)) # 2 THEN [err |-> TRUE, fsMap |-> EmptyMap]
    ELSE FuseEntries(Tail(entries), MapPut(m, Head(entries)[1], Head(entries)[2]))

RECURSIVE AllowedEntries(_, _)
AllowedEntries(names, m) ==
    IF names = <<>> THEN [err |-> FALSE, fsMap |-> m]
    ELSE IF MapGet(m, Head(names)) # "" THEN [err |-> TRUE, fsMap |-> EmptyMap]
    ELSE AllowedEntries(Tail(names), MapPut(m, Head(names), ""))

SyscallInterceptMountFilter(mc) ==
    IF ~mc.intercept THEN [err |-> FALSE, fsMap |-> EmptyMap]
    ELSE LET fused == IF Len(mc.fuse) > 0 /\ mc.fuse[1] # << "" >>
                      THEN FuseEntries(mc.fuse, EmptyMap)
                      ELSE [err |-> FALSE, fsMap |-> EmptyMap]
         IN  IF fused.err THEN fused
             ELSE IF Len(mc.allowed) > 0 /\ mc.allowed[1] # ""
             THEN AllowedEntries(mc.allowed, fused.fsMap)
             ELSE fused

\* A filter that lets every filesystem type through to the native branch.
MountValidAnyFstype(c, fstype) == [ok |-> TRUE, fuse |-> ""]

MountSyscallValid(c, fstype) ==
    LET flt == SyscallInterceptMountFilter(c.mount)
    IN  IF flt.err THEN [ok |-> FALSE, fuse |-> ""]
        ELSE IF fstype \in DOMAIN flt.fsMap
        THEN [ok |-> TRUE, fuse |-> flt.fsMap[fstype]]
        ELSE [ok |-> FALSE, fuse |-> ""]

MountSyscallShift(c) ==
    IF c.mount.shift
    THEN IF c.diskIdmap = "err" THEN "none"
         ELSE IF c.diskIdmap = "nil" THEN c.idmappedStorage
         ELSE "none"
    ELSE "none"

\* fmt.Sprintf("%d", n) as a sequence of one-character strings
DigitChar(d) ==
    CASE d = 0 -> "0" [] d = 1 -> "1" [] d = 2 -> "2" [] d = 3 -> "3" [] d = 4 -> "4"
      [] d = 5 -> "5" [] d = 6 -> "6" [] d = 7 -> "7" [] d = 8 -> "8" [] d = 9 -> "9"

RECURSIVE ItoaNat(_)
ItoaNat(n) == IF n < 10 THEN << DigitChar(n) >> ELSE ItoaNat(n \div 10) \o << DigitChar(n % 10) >>

Itoa(n) == IF n < 0 THEN << "-" >> \o ItoaNat(-n) ELSE ItoaNat(n)

\* Mount data is the list of its comma-separated options, each the list of
\* its "="-separated fields: the key as a string, then the values as
\* character sequences.  The loop of mountHandleHugetlbfsArgs over the
\* options: st carries the rewritten options, uidOpt, gidOpt, and whether
\* the function has returned early (leaving args.data as it was).
\* One option o of the loop; p is strconv.Atoi of its value, shifted the id
\* ShiftIntoNS gives for it.
HugetlbfsOpt(o, p, shifted, st) ==
    IF ~p.ok \/ shifted < 0 THEN [st EXCEPT !.early = TRUE]
    ELSE [st EXCEPT !.out = Append(@, << o[1], Itoa(shifted) >>),
                    !.uidOpt = IF o[1] = "uid" THEN shifted ELSE @,
                    !.gidOpt = IF o[1] = "gid" THEN shifted ELSE @]

RECURSIVE HugetlbfsOpts(_, _, _)
HugetlbfsOpts(idmap, opts, st) ==
    IF opts = <<>> \/ st.early THEN st
    ELSE IF Len(Head(opts)) >= 2 /\ Head(opts)[1] \in {"uid", "gid"}
    THEN HugetlbfsOpts(idmap, Tail(opts),
                       HugetlbfsOpt(Head(opts), Atoi(Head(opts)[2]),
                                    ShiftIntoNS(idmap, Atoi(Head(opts)[2]).n), st))
    ELSE HugetlbfsOpts(idmap, Tail(opts), [st EXCEPT !.out = Append(@, Head(opts))])

\* The end of mountHandleHugetlbfsArgs, st being the state the loop left.
HugetlbfsData(args, nsuid, nsgid, st) ==
    IF st.early THEN [err |-> FALSE, data |-> args.data, idmapType |-> args.idmapType]
    ELSE [err |-> FALSE, idmapType |-> "none",
          data |-> st.out
                   \o (IF st.uidOpt = -1 THEN << << "uid", Itoa(nsuid) >> >> ELSE <<>>)
                   \o (IF st.gidOpt = -1 THEN << << "gid", Itoa(nsgid) >> >> ELSE <<>>)]

\* Returns [err, data, idmapType].
mountHandleHugetlbfsArgs(c, args, nsuid, nsgid) ==
    IF args.fstype # "hugetlbfs"
    THEN [err |-> FALSE, data |-> args.data, idmapType |-> args.idmapType]
    ELSE IF args.data = <<>>
    THEN [err |-> FALSE, idmapType |-> args.idmapType,
          data |-> << << "uid", Itoa(nsuid) >>, << "gid", Itoa(nsgid) >> >>]
    ELSE IF c.idmapErr
    THEN [err |-> TRUE, data |-> args.data, idmapType |-> args.idmapType]
    ELSE HugetlbfsData(args, nsuid, nsgid,
                       HugetlbfsOpts(c.idmap, args.data,
                                     [out |-> <<>>, uidOpt |-> -1, gidOpt |-> -1,
                                      early |-> FALSE]))

NonZero(x) == x.hi # 0 \/ x.lo # 0

\* The strings HandleMountSyscall reads from the target's memory; a null
\* pointer is not read.  The read of fstype is guarded by args[1].
MountArgs(c, req, env) ==
    [source |-> IF NonZero(Arg(req, 0)) THEN env.source ELSE "",
     target |-> IF NonZero(Arg(req, 1)) THEN env.target ELSE "",
     fstype |-> IF NonZero(Arg(req, 1)) THEN env.fstype ELSE "",
     flags |-> Arg(req, 3),
     data |-> IF NonZero(Arg(req, 4)) THEN env.data ELSE <<>>,
     idmapType |-> MountSyscallShift(c)]

\* The reads attempted, in order: source, target, fstype, data.
MountReads(req, env) ==
    (IF NonZero(Arg(req, 0)) THEN << Op("pread", "source") >> ELSE <<>>)
    \o (IF NonZero(Arg(req, 1))
        THEN << Op("pread", "target"), OpData("pread", "fstype", env.fstype) >> ELSE <<>>)
    \o (IF NonZero(Arg(req, 4)) THEN << OpData("pread", "data", env.data) >> ELSE <<>>)

\* The forkmount invocation.
MountCall(c, env, args, valid, huge) ==
    IF valid.fuse # ""
    THEN OpData("bridge", [sub |-> "mount", fuse |-> 1, ids |-> env.taskids,
                           fuseBinary |-> valid.fuse, source |-> args.source,
                           target |-> args.target, flags |-> args.flags, data |-> huge.data],
                env.bridge)
    ELSE OpData("bridge", [sub |-> "mount", fuse |-> 0, ids |-> env.taskids,
                           source |-> args.source, target |-> args.target,
                           fstype |-> args.fstype, flags |-> args.flags,
                           idmapType |-> huge.idmapType,
                           nsuid |-> ShiftFromNS(c.idmap, env.taskids.uid),
                           nsgid |-> ShiftFromNS(c.idmap, env.taskids.gid),
                           nsfsuid |-> ShiftFromNS(c.idmap, env.taskids.fsuid),
                           nsfsgid |-> ShiftFromNS(c.idmap, env.taskids.fsgid),
                           data |-> huge.data],
                env.bridge)

\* The end of HandleMountSyscall: the hugetlbfs rewrite huge, then the child.
MountForked(resp, env, ops, huge, c, args, valid) ==
    IF huge.err THEN Continue(resp, ops)
    ELSE IF ~env.bridge.exit0
    THEN Continue(resp, ops \o << MountCall(c, env, args, valid, huge) >>)
    ELSE Res(0, resp, ops \o << MountCall(c, env, args, valid, huge) >>)

\* HandleMountSyscall once the arguments are read: reads is the trace of
\* the reads, valid the result of MountSyscallValid.  Every failure sets
\* CONTINUE, whatever the mode.
MountChecked(o, c, resp, env, args, reads, valid) ==
    \* without pidfd support pidFd is nil and the signal goes to fd -1
    IF ~o.PidFds \/ env.signalErr
    THEN Continue(resp, reads \o << Op("pidfd_send_signal", "err") >>)
    ELSE IF ~valid.ok \/ c.idmapErr
    THEN Continue(resp, reads \o << Op("pidfd_send_signal", "ok") >>)
    ELSE IF env.taskids.err
    THEN Continue(resp, reads \o << Op("pidfd_send_signal", "ok"), Op("taskids", env.taskids) >>)
    ELSE MountForked(resp, env,
                     reads \o << Op("pidfd_send_signal", "ok"), Op("taskids", env.taskids) >>,
                     mountHandleHugetlbfsArgs(c, args, env.taskids.uid, env.taskids.gid),
                     c, args, valid)

HandleMountSyscall(o, c, siov, env) ==
    IF env.preadFail >= 1 /\ env.preadFail <= Len(MountReads(siov.req, env))
    THEN Continue(siov.resp, SubSeq(MountReads(siov.req, env), 1, env.preadFail - 1)
                             \o << Op("pread", "err") >>)
    ELSE MountChecked(o, c, siov.resp, env, MountArgs(c, siov.req, env),
                      MountReads(siov.req, env),
                      MountSyscallValid(c, MountArgs(c, siov.req, env).fstype))

(***************************************************************************)
(* Dispatch                                                                *)
(***************************************************************************)
\* The switch of handleSyscall on the classifier's result cls; the result
\* also carries the category (sc).
handleCategory(o, c, siov, env, cls) ==
    [sc |-> cls.ret,
     res |-> CASE cls.ret = INCUS_SECCOMP_NOTIFY_MKNOD ->
                      HandleMknodSyscall(o.SeccompListenerContinue, siov, env)
               [] cls.ret = INCUS_SECCOMP_NOTIFY_MKNODAT ->
                      HandleMknodatSyscall(o.SeccompListenerContinue, siov, env)
               [] cls.ret = INCUS_SECCOMP_NOTIFY_SETXATTR ->
                      HandleSetxattrSyscall(o.SeccompListenerContinue, c, siov, env)
               [] cls.ret = INCUS_SECCOMP_NOTIFY_MOUNT -> HandleMountSyscall(o, c, siov, env)
               [] cls.ret = INCUS_SECCOMP_NOTIFY_BPF -> HandleBpfSyscall(o, c, siov, env)
               [] cls.ret = INCUS_SECCOMP_NOTIFY_SCHED_SETSCHEDULER ->
                      HandleSchedSetschedulerSyscall(o.SeccompListenerContinue, c, siov, env)
               [] cls.ret = INCUS_SECCOMP_NOTIFY_SYSINFO -> HandleSysinfoSyscall(c, siov, env)
               [] OTHER -> Res(-EINVAL, siov.resp, <<>>)]

\* The bundle once the classifier has reset its response.
Classified(siov, cls) == [siov EXCEPT !.resp = cls.resp]

\* handleSyscall: classify, then run the emulator of the category.
handleSyscall(o, c, siov, env) ==
    handleCategory(o, c, Classified(siov, seccomp_notify_get_syscall(siov.req, siov.resp)),
                   env, seccomp_notify_get_syscall(siov.req, siov.resp))

(***************************************************************************)
(* Frame validation                                                        *)
(***************************************************************************)
\* sizeof the three structures of a frame, and the sizes the kernel reports
\* at start (seccomp_notify_get_sizes insists that they agree).
SECCOMP_PROXY_MSG_SIZE == 32
SECCOMP_NOTIFY_SIZE == 80
SECCOMP_RESPONSE_SIZE == 24
SECCOMP_DATA_SIZE == 64

SECCOMP_MSG_SIZE_MIN == SECCOMP_PROXY_MSG_SIZE + SECCOMP_NOTIFY_SIZE + SECCOMP_RESPONSE_SIZE

expected_sizes ==
    [seccomp_notif |-> SECCOMP_NOTIFY_SIZE, seccomp_notif_resp |-> SECCOMP_RESPONSE_SIZE,
     seccomp_data |-> SECCOMP_DATA_SIZE]

\* A validation that lets a non-zero reserved field pass.
IsValidIgnoringReserved(siov, size) ==
    /\ size >= SECCOMP_MSG_SIZE_MIN
    /\ siov.msg.sizes = expected_sizes

IsValidSeccompIovec(siov, size) ==
    IF size < SECCOMP_MSG_SIZE_MIN THEN FALSE
    ELSE IF siov.msg.reserved # 0 THEN FALSE
    ELSE IF siov.msg.sizes.seccomp_notif # expected_sizes.seccomp_notif THEN FALSE
    ELSE IF siov.msg.sizes.seccomp_notif_resp # expected_sizes.seccomp_notif_resp THEN FALSE
    ELSE IF siov.msg.sizes.seccomp_data # expected_sizes.seccomp_data THEN FALSE
    ELSE TRUE

(***************************************************************************)
(* The server.  frames is the list of the bundles (Iovec) the receive loop *)
(* of the connection has allocated, in order; each carries the position of *)
(* the goroutine that owns it:                                             *)
(*   "lookup"   HandleValid started, findPID not yet called                *)
(*   "dispatch" instance found, handleSyscall not yet called               *)
(*   "send"     SendSeccompIovec(errno, sflags) not yet returned           *)
(*   "invalid"  HandleInvalid started                                      *)
(*   "put"      PutSeccompIovec pending (deferred, or last statement)      *)
(*   "done"     goroutine returned                                         *)
(*   "dead"     goroutine died of a panic after its deferred call ran      *)
(*   "leaked"   bundle allocated for a receive that failed                 *)
(***************************************************************************)
NoInstance == [name |-> "none"]

NoResp == [id |-> 0, val |-> 0, error |-> 0, flags |-> 0]

\* The file descriptors the kernel hands out for the i-th receive.
FdsOf(i) == [procFd |-> 3 * i + 7, memFd |-> 3 * i + 8, notifyFd |-> 3 * i + 9]

\* NewSeccompIovec followed by a successful ReceiveSeccompIovec of frame f.
\* With UnixFdsAcceptLess a message without descriptors leaves all three at -1.
NewSeccompIovec(i, f, pc) ==
    [size |-> f.size, msg |-> f.msg, req |-> f.req, resp |-> f.resp,
     procFd |-> IF f.fds THEN FdsOf(i).procFd ELSE -1,
     memFd |-> IF f.fds THEN FdsOf(i).memFd ELSE -1,
     notifyFd |-> IF f.fds THEN FdsOf(i).notifyFd ELSE -1,
     pc |-> pc, c |-> NoInstance, looked |-> FALSE, dispatched |-> FALSE,
     sc |-> -EINVAL, ops |-> <<>>,
     errno |-> 0, sflags |-> 0, panic |-> FALSE, eintr |-> 0,
     replies |-> <<>>, closed |-> <<>>, freed |-> 0]

\* A frame as it arrives: what the peer wrote, whether descriptors came along.
Frame(size, reserved, monitor_pid, sizes, fds, req, resp) ==
    [size |-> size, fds |-> fds, req |-> req, resp |-> resp,
     msg |-> [reserved |-> reserved, monitor_pid |-> monitor_pid, sizes |-> sizes]]

Alive == conn \in {"open", "closed"}

\* l.Accept and the start of the connection goroutine: GetUcred or File()
\* may fail, and then the goroutine returns without reading anything.
Accept ==
    /\ conn = "listening"
    /\ conn' \in {"open", "failed"}
    /\ UNCHANGED <<os, frames, pconf, pout>>

\* A receive loop that reads the next frame only once every frame before it
\* has been handled to the end.
ReceiveFrameWhenIdle(f) ==
    /\ conn = "open"
    /\ \A k \in 1..Len(frames) : frames[k].pc \in {"done", "leaked"}
    /\ LET i == Len(frames) + 1
           siov == NewSeccompIovec(i, f, "lookup")
       IN  frames' = Append(frames,
                        IF IsValidSeccompIovec(siov, f.size) THEN siov
                        ELSE [siov EXCEPT !.pc = "invalid"])
    /\ UNCHANGED <<os, conn, pconf, pout>>

\* One iteration of the receive loop whose receive succeeds with frame f.
ReceiveFrame(f) ==
    /\ conn = "open"
    /\ LET i == Len(frames) + 1
           siov == NewSeccompIovec(i, f, "lookup")
       IN  frames' = Append(frames,
                        IF IsValidSeccompIovec(siov, f.size) THEN siov
                        ELSE [siov EXCEPT !.pc = "invalid"])
    /\ UNCHANGED <<os, conn, pconf, pout>>

\* One iteration whose receive fails: the connection is closed and the
\* goroutine returns; the bundle it had allocated is not put.
ReceiveFail ==
    /\ conn = "open"
    /\ frames' = Append(frames,
                    [NewSeccompIovec(Len(frames) + 1,
                                     Frame(0, 0, 0, [seccomp_notif |-> 0, seccomp_notif_resp |-> 0,
                                                     seccomp_data |-> 0],
                                           FALSE, [id |-> 0, pid |-> 0, flags |-> 0, nr |-> 0,
                                                   arch |-> 0, args |-> <<>>], NoResp),
                                     "leaked")
                     EXCEPT !.size = 0])
    /\ conn' = "closed"
    /\ UNCHANGED <<os, pconf, pout>>

\* HandleInvalid: one sendmsg with an empty msghdr, its result ignored.
HandleInvalid(i) ==
    /\ Alive
    /\ frames[i].pc = "invalid"
    /\ \E outcome \in {"ok", "fail"} :
          frames' = [frames EXCEPT ![i].pc = "put",
                         ![i].replies = Append(@, [iovlen |-> 0, resp |-> NoResp,
                                                   outcome |-> outcome])]
    /\ UNCHANGED <<os, conn, pconf, pout>>

\* PutSeccompIovec: close the descriptors that were received, free the five
\* buffers.  A goroutine that is panicking takes the process down once its
\* deferred calls have run.
PutSeccompIovec(i) ==
    /\ Alive
    /\ frames[i].pc = "put"
    /\ LET b == frames[i]
           c1 == IF b.memFd >= 0 THEN << b.memFd >> ELSE <<>>
           c2 == IF b.procFd >= 0 THEN << b.procFd >> ELSE <<>>
           c3 == IF b.notifyFd >= 0 THEN << b.notifyFd >> ELSE <<>>
       IN  /\ frames' = [frames EXCEPT ![i].closed = @ \o c1 \o c2 \o c3,
                                       ![i].freed = @ + 1,
                                       ![i].pc = IF b.panic THEN "dead" ELSE "done"]
           /\ conn' = IF b.panic THEN "crashed" ELSE conn
    /\ UNCHANGED <<os, pconf, pout>>

(***************************************************************************)
(* The instances the daemon runs, by the pid of their monitor.  findPID is *)
(* the lookup handed to NewSeccompServer.                                  *)
(***************************************************************************)
Instance(name, arch, idmapErr, bpfDevices, mount, diskIdmap) ==
    [name |-> name, arch |-> arch, idmap |-> [hostid |-> 100000, maprange |-> 65536],
     idmapErr |-> idmapErr, bpfDevices |-> bpfDevices, mount |-> mount,
     diskIdmap |-> diskIdmap, idmappedStorage |-> "idmapped"]

MountConf(intercept, fuse, allowed, shift) ==
    [intercept |-> intercept, fuse |-> fuse, allowed |-> allowed, shift |-> shift]

Instances ==
    (1001 :> Instance("c1", ARCH_64BIT_INTEL_X86, FALSE, TRUE,
                      MountConf(TRUE, << << "ext4", "fuse2fs" >> >>, << "hugetlbfs", "xfs" >>, TRUE),
                      "nil"))
    @@ (1002 :> Instance("c2", ARCH_64BIT_INTEL_X86, TRUE, FALSE,
                         MountConf(FALSE, << << "" >> >>, << "" >>, FALSE), "set"))
    @@ (1003 :> Instance("c3", ARCH_32BIT_INTEL_X86, FALSE, TRUE,
                         MountConf(TRUE, << << "ext4" >> >>, << "ext4" >>, TRUE), "err"))
    @@ (1004 :> Instance("c4", ARCH_64BIT_INTEL_X86, FALSE, FALSE,
                         MountConf(TRUE, << << "ext4", "fuse2fs" >> >>, << "xfs", "ext4" >>,
                                   FALSE), "nil"))

findPID(pid) ==
    IF pid \in DOMAIN Instances THEN [err |-> FALSE, c |-> Instances[pid]]
    ELSE [err |-> TRUE, c |-> NoInstance]

\* HandleValid up to the end of the instance-not-found branch: the reply
\* that branch sends is SendSeccompIovec(0, CONTINUE) or (-EPERM, 0).
HandleValidFind(i) ==
    /\ Alive
    /\ frames[i].pc = "lookup"
    /\ LET r == findPID(frames[i].msg.monitor_pid)
       IN  frames' = [frames EXCEPT
                         ![i].looked = TRUE,
                         ![i].c = r.c,
                         ![i].pc = IF r.err THEN "send" ELSE "dispatch",
                         ![i].errno = IF r.err /\ ~os.SeccompListenerContinue
                                      THEN -EPERM ELSE 0,
                         ![i].sflags = IF r.err /\ os.SeccompListenerContinue
                                       THEN seccompUserNotifFlagContinue ELSE 0]
    /\ UNCHANGED <<os, conn, pconf, pout>>

\* The bundle after handleSyscall returned d = [sc, res].
Dispatched(b, d) ==
    [b EXCEPT !.dispatched = TRUE, !.sc = d.sc, !.resp = d.res.resp, !.ops = d.res.ops,
              !.errno = d.res.ret, !.sflags = 0, !.panic = d.res.panic,
              !.pc = IF d.res.panic THEN "put" ELSE "send"]

\* errno := s.handleSyscall(c, siov), with the outcomes env of everything
\* outside the process that the emulator consults.
HandleValidSyscall(i, env) ==
    /\ Alive
    /\ frames[i].pc = "dispatch"
    /\ frames' = [frames EXCEPT
                     ![i] = Dispatched(@, handleSyscall(os, frames[i].c, frames[i], env))]
    /\ UNCHANGED <<os, conn, pconf, pout>>

\* How often one sendmsg is interrupted before it completes.
MaxEintr == 1

\* SendSeccompIovec(fd, errno, sflags): the response is updated, then the
\* three iovecs are sent; EINTR is retried, every other result ends the call.
SendSeccompIovec(i) ==
    /\ Alive
    /\ frames[i].pc = "send"
    /\ LET resp == seccomp_notify_update_response(frames[i].resp, frames[i].errno,
                                                  frames[i].sflags)
       IN  \E outcome \in {"ok", "short", "fail", "eintr"} :
              IF outcome = "eintr"
              THEN /\ frames[i].eintr < MaxEintr
                   /\ frames' = [frames EXCEPT ![i].resp = resp, ![i].eintr = @ + 1]
              ELSE frames' = [frames EXCEPT
                                 ![i].resp = resp,
                                 ![i].eintr = 0,
                                 ![i].replies = Append(@, [iovlen |-> 3, resp |-> resp,
                                                           outcome |-> outcome]),
                                 ![i].pc = "put"]
    /\ UNCHANGED <<os, conn, pconf, pout>>

(***************************************************************************)
(* The policy compiler.  A text is the sequence of its pieces: NL is the   *)
(* newline character, every other piece a run of characters without one.   *)
(* Concatenation of texts is concatenation of sequences, so a text that    *)
(* does not end in NL runs into the text appended to it.                   *)
(***************************************************************************)
NL == "\n"

seccompHeader == << "2", NL >>

defaultSeccompPolicy ==
    << "reject_force_umount  # comment this to allow umount -f;  not recommended", NL,
       "[all]", NL,
       "kexec_load errno 38", NL,
       "open_by_handle_at errno 38", NL,
       "init_module errno 38", NL,
       "finit_module errno 38", NL,
       "delete_module errno 38", NL >>

seccompNotifyDisallow ==
    << "seccomp errno 22 [1,2146435072,SCMP_CMP_MASKED_EQ,2146435072]", NL,
       "seccomp errno 22 [1,8,SCMP_CMP_MASKED_EQ,8]", NL >>

seccompNotifyMknod ==
    << "mknod notify [1,8192,SCMP_CMP_MASKED_EQ,61440]", NL,
       "mknod notify [1,24576,SCMP_CMP_MASKED_EQ,61440]", NL,
       "mknodat notify [2,8192,SCMP_CMP_MASKED_EQ,61440]", NL,
       "mknodat notify [2,24576,SCMP_CMP_MASKED_EQ,61440]", NL >>

seccompNotifySetxattr == << "setxattr notify [3,1,SCMP_CMP_EQ]", NL >>

seccompNotifySchedSetscheduler == << "sched_setscheduler notify", NL >>

seccompNotifySysinfo == << "sysinfo notify", NL >>

seccompBlockNewMountAPI ==
    << "fsopen errno 38", NL, "fsconfig errno 38", NL, "fsinfo errno 38", NL,
       "fsmount errno 38", NL, "fspick errno 38", NL, "open_tree errno 38", NL,
       "move_mount errno 38", NL, "openat2 errno 38", NL >>

seccompNotifyMount ==
    << "mount notify [3,0,SCMP_CMP_MASKED_EQ,18446744070422410016]", NL >>

seccompNotifyBpf ==
    << "bpf notify [0,5,SCMP_CMP_EQ]", NL, "bpf notify [0,8,SCMP_CMP_EQ]", NL,
       "bpf notify [0,9,SCMP_CMP_EQ]", NL >>

\* fmt.Sprintf(compatBlockingPolicy, arch): the section header is the three
\* pieces "[", arch, "]" of one line.
compatBlockingPolicy(arch) ==
    << "[", arch, "]", NL,
       "compat_sys_rt_sigaction errno 38", NL, "stub_x32_rt_sigreturn errno 38", NL,
       "compat_sys_ioctl errno 38", NL, "compat_sys_readv errno 38", NL,
       "compat_sys_writev errno 38", NL, "compat_sys_recvfrom errno 38", NL,
       "compat_sys_sendmsg errno 38", NL, "compat_sys_recvmsg errno 38", NL,
       "stub_x32_execve errno 38", NL, "compat_sys_ptrace errno 38", NL,
       "compat_sys_rt_sigpending errno 38", NL, "compat_sys_rt_sigtimedwait errno 38", NL,
       "compat_sys_rt_sigqueueinfo errno 38", NL, "compat_sys_sigaltstack errno 38", NL,
       "compat_sys_timer_create errno 38", NL, "compat_sys_mq_notify errno 38", NL,
       "compat_sys_kexec_load errno 38", NL, "compat_sys_waitid errno 38", NL,
       "compat_sys_set_robust_list errno 38", NL, "compat_sys_get_robust_list errno 38", NL,
       "compat_sys_vmsplice errno 38", NL, "compat_sys_move_pages errno 38", NL,
       "compat_sys_preadv64 errno 38", NL, "compat_sys_pwritev64 errno 38", NL,
       "compat_sys_rt_tgsigqueueinfo errno 38", NL, "compat_sys_recvmmsg errno 38", NL,
       "compat_sys_sendmmsg errno 38", NL, "compat_sys_process_vm_readv errno 38", NL,
       "compat_sys_process_vm_writev errno 38", NL, "compat_sys_setsockopt errno 38", NL,
       "compat_sys_getsockopt errno 38", NL, "compat_sys_io_setup errno 38", NL,
       "compat_sys_io_submit errno 38", NL, "stub_x32_execveat errno 38", NL >>

\* strings.ToLower on the spellings the configuration sets use.
ToLower(v) ==
    CASE v = "TRUE" -> "true" [] v = "True" -> "true" [] v = "FALSE" -> "false"
      [] v = "Yes" -> "yes" [] v = "No" -> "no" [] OTHER -> v

\* util.IsTrue, util.IsFalse, util.IsFalseOrEmpty
IsTrue(v) == ToLower(v) \in {"true", "1", "yes", "on"}

IsFalse(v) == ToLower(v) \in {"false", "0", "no", "off"}

IsFalseOrEmpty(v) == v = "" \/ IsFalse(v)

\* config[k] of a key whose value is a text: the empty text when absent.
TextGet(config, k) == IF k \in DOMAIN config THEN config[k] ELSE <<>>

\* The capability checks; "" is the nil error.
lxcSupportSeccompNotify(o) ==
    IF ~o.SeccompListener THEN "Seccomp notify not supported"
    ELSE IF ~o.seccomp_notify THEN "LXC doesn't support seccomp notify"
    ELSE IF o.lxcTest = "load" THEN "Failed to load seccomp notify test container"
    ELSE IF o.lxcTest = "proxy" THEN "LXC doesn't support notify proxy"
    ELSE ""

lxcSupportSeccompNotifyContinue(o) ==
    IF lxcSupportSeccompNotify(o) # "" THEN lxcSupportSeccompNotify(o)
    ELSE IF ~o.SeccompListenerContinue
    THEN "Seccomp notify doesn't support continuing syscalls"
    ELSE ""

AddfdCheckWithoutAddfd(o) == lxcSupportSeccompNotifyContinue(o)

lxcSupportSeccompNotifyAddfd(o) ==
    IF lxcSupportSeccompNotifyContinue(o) # "" THEN lxcSupportSeccompNotifyContinue(o)
    ELSE IF ~o.SeccompListenerAddfd
    THEN "Seccomp notify doesn't support adding file descriptors"
    ELSE ""

InterceptKeys ==
    {"security.syscalls.intercept.mknod", "security.syscalls.intercept.sched_setscheduler",
     "security.syscalls.intercept.setxattr", "security.syscalls.intercept.sysinfo",
     "security.syscalls.intercept.mount", "security.syscalls.intercept.bpf"}

\* The check the keys map of InstanceNeedsIntercept gives for a key.
InterceptCheck(o, key) ==
    CASE key = "security.syscalls.intercept.mount" -> lxcSupportSeccompNotifyContinue(o)
      [] key = "security.syscalls.intercept.bpf" -> lxcSupportSeccompNotifyAddfd(o)
      [] OTHER -> lxcSupportSeccompNotify(o)

InterceptFirstEnabledOnly(o, config, order, needed) ==
    LET enabled == SelectSeq(order, LAMBDA k : ~IsFalseOrEmpty(MapGet(config, k)))
    IN  IF enabled = <<>> THEN [needed |-> needed, err |-> ""]
        ELSE IF InterceptCheck(o, enabled[1]) # ""
        THEN [needed |-> needed, err |-> InterceptCheck(o, enabled[1])]
        ELSE [needed |-> TRUE, err |-> ""]

\* The loop over the keys map, order being the order in which this run of
\* the loop meets the keys (Go leaves the order of a map range open).
RECURSIVE InterceptLoop(_, _, _, _)
InterceptLoop(o, config, order, needed) ==
    IF order = <<>> THEN [needed |-> needed, err |-> ""]
    ELSE IF IsFalseOrEmpty(MapGet(config, Head(order)))
    THEN InterceptLoop(o, config, Tail(order), needed)
    ELSE IF InterceptCheck(o, Head(order)) # ""
    THEN [needed |-> needed, err |-> InterceptCheck(o, Head(order))]
    ELSE InterceptLoop(o, config, Tail(order), TRUE)

InstanceNeedsIntercept(o, c, order) ==
    IF c.privileged THEN [needed |-> FALSE, err |-> ""]
    ELSE IF o.RunningInUserNS THEN [needed |-> FALSE, err |-> ""]
    ELSE InterceptLoop(o, c.config, order, FALSE)

\* InstanceNeedsPolicy
InstanceNeedsPolicy(c) ==
    \/ \E k \in {"raw.seccomp", "security.syscalls.allow", "security.syscalls.deny",
                 "security.syscalls.whitelist", "security.syscalls.blacklist"} :
          k \in DOMAIN c.config
    \/ \E k \in {"security.syscalls.deny_compat", "security.syscalls.blacklist_compat"}
                \cup InterceptKeys :
          IsTrue(MapGet(c.config, k))
    \/ IF "security.syscalls.deny_default" \in DOMAIN c.config
       THEN IsTrue(c.config["security.syscalls.deny_default"])
       ELSE IF "security.syscalls.blacklist_default" \in DOMAIN c.config
       THEN IsTrue(c.config["security.syscalls.blacklist_default"])
       ELSE TRUE

\* value, ok := config[k1]; if !ok { value = config[k2] }
Either(config, k1, k2) == IF k1 \in DOMAIN config THEN config[k1] ELSE MapGet(config, k2)

EitherText(config, k1, k2) == IF k1 \in DOMAIN config THEN config[k1] ELSE TextGet(config, k2)

PolicyHeadAlwaysBaseline(o, config, allowlist) ==
    IF allowlist # <<>>
    THEN seccompHeader
         \o << IF o.seccomp_allow_deny_syntax THEN "allowlist" ELSE "whitelist", NL,
               "[all]", NL >>
         \o allowlist
    ELSE seccompHeader
         \o << IF o.seccomp_allow_deny_syntax THEN "denylist" ELSE "blacklist", NL,
               "[all]", NL >>
         \o defaultSeccompPolicy

\* The mode line, the section marker and what follows them up to the
\* interception rules.
PolicyHead(o, config, allowlist) ==
    IF allowlist # <<>>
    THEN seccompHeader
         \o << IF o.seccomp_allow_deny_syntax THEN "allowlist" ELSE "whitelist", NL,
               "[all]", NL >>
         \o allowlist
    ELSE seccompHeader
         \o << IF o.seccomp_allow_deny_syntax THEN "denylist" ELSE "blacklist", NL,
               "[all]", NL >>
         \o (IF ("security.syscalls.deny_default" \notin DOMAIN config
                 /\ "security.syscalls.blacklist_default" \notin DOMAIN config)
                \/ IsTrue(Either(config, "security.syscalls.deny_default",
                                 "security.syscalls.blacklist_default"))
             THEN defaultSeccompPolicy ELSE <<>>)

\* The rules of every category, whatever the keys say.
PolicyInterceptEveryCategory(config) ==
    seccompNotifyDisallow \o seccompNotifyMknod \o seccompNotifySchedSetscheduler
    \o seccompNotifySetxattr \o seccompNotifySysinfo
    \o seccompNotifyMount \o seccompBlockNewMountAPI \o seccompNotifyBpf

\* The rules appended when InstanceNeedsIntercept says yes.
PolicyIntercept(config) ==
    seccompNotifyDisallow
    \o (IF IsTrue(MapGet(config, "security.syscalls.intercept.mknod"))
        THEN seccompNotifyMknod ELSE <<>>)
    \o (IF IsTrue(MapGet(config, "security.syscalls.intercept.sched_setscheduler"))
        THEN seccompNotifySchedSetscheduler ELSE <<>>)
    \o (IF IsTrue(MapGet(config, "security.syscalls.intercept.setxattr"))
        THEN seccompNotifySetxattr ELSE <<>>)
    \o (IF IsTrue(MapGet(config, "security.syscalls.intercept.sysinfo"))
        THEN seccompNotifySysinfo ELSE <<>>)
    \o (IF IsTrue(MapGet(config, "security.syscalls.intercept.mount"))
        THEN seccompNotifyMount \o seccompBlockNewMountAPI ELSE <<>>)
    \o (IF IsTrue(MapGet(config, "security.syscalls.intercept.bpf"))
        THEN seccompNotifyBpf ELSE <<>>)

\* The additional deny entries of deny-list mode.
PolicyTail(c, policy) ==
    IF IsTrue(Either(c.config, "security.syscalls.deny_compat",
                     "security.syscalls.blacklist_compat"))
       /\ c.archName = ""
    THEN [err |-> "unknown architecture", policy |-> <<>>]
    ELSE [err |-> "",
          policy |-> policy
                     \o (IF IsTrue(Either(c.config, "security.syscalls.deny_compat",
                                          "security.syscalls.blacklist_compat"))
                         THEN compatBlockingPolicy(c.archName) ELSE <<>>)
                     \o EitherText(c.config, "security.syscalls.deny",
                                   "security.syscalls.blacklist")]

PolicyContentAlwaysTail(o, c, allowlist, ni) ==
    IF ni.err # "" THEN [err |-> ni.err, policy |-> <<>>]
    ELSE PolicyTail(c, PolicyHead(o, c.config, allowlist)
                       \o (IF ni.needed THEN PolicyIntercept(c.config) ELSE <<>>))

\* seccompGetPolicyContent after the raw override: allowlist is the
\* allow-list text, ni the result of InstanceNeedsIntercept.
PolicyContent(o, c, allowlist, ni) ==
    IF ni.err # "" THEN [err |-> ni.err, policy |-> <<>>]
    ELSE IF allowlist # <<>>
    THEN [err |-> "",
          policy |-> PolicyHead(o, c.config, allowlist)
                     \o (IF ni.needed THEN PolicyIntercept(c.config) ELSE <<>>)]
    ELSE PolicyTail(c, PolicyHead(o, c.config, allowlist)
                       \o (IF ni.needed THEN PolicyIntercept(c.config) ELSE <<>>))

\* Returns [err, policy]; ni is what InstanceNeedsIntercept returns when
\* it is called.
seccompGetPolicyContent(o, c, ni) ==
    IF TextGet(c.config, "raw.seccomp") # <<>>
    THEN [err |-> "", policy |-> c.config["raw.seccomp"]]
    ELSE PolicyContent(o, c,
                       IF TextGet(c.config, "security.syscalls.allow") # <<>>
                       THEN c.config["security.syscalls.allow"]
                       ELSE TextGet(c.config, "security.syscalls.whitelist"),
                       ni)

\* No profile file at ProfilePath(c).
NoFile == << "no file" >>

\* CreateProfile after seccompGetPolicyContent returned r; fs is what the
\* file system does: "ok", or the call that fails.
WriteProfile(r, fs, file) ==
    IF r.err # ""
    THEN [done |-> TRUE, compiled |-> TRUE, cerr |-> r.err, err |-> r.err, policy |-> <<>>,
          file |-> file]
    ELSE IF fs = "ok"
    THEN [done |-> TRUE, compiled |-> TRUE, cerr |-> "", err |-> "", policy |-> r.policy,
          file |-> r.policy]
    ELSE [done |-> TRUE, compiled |-> TRUE, cerr |-> "", err |-> fs, policy |-> r.policy,
          file |-> file]

\* CreateProfile: the result, with the outcome of the compiler (cerr, policy)
\* and the content of the profile file afterwards.
CreateProfile(o, c, ni, fs, file) ==
    IF ~InstanceNeedsPolicy(c)
    THEN [done |-> TRUE, compiled |-> FALSE, cerr |-> "", err |-> "", policy |-> <<>>,
          file |-> file]
    ELSE WriteProfile(seccompGetPolicyContent(o, c, ni), fs, file)

(***************************************************************************)
(* Outcomes of the world outside the process                               *)
(***************************************************************************)
Ids(uid, gid, fsuid, fsgid) ==
    [err |-> FALSE, uid |-> uid, gid |-> gid, fsuid |-> fsuid, fsgid |-> fsgid]

\* Everything succeeds: the caller is root of the container.
\* The effective memory limit of the instances' cgroup, in bytes.
MemLimit == 8

BaseEnv ==
    [taskids |-> Ids(100000, 100000, 100000, 100000),
     bridge |-> [exit0 |-> TRUE, stderr |-> <<>>],
     insertErr |-> FALSE, preadFail |-> 0,
     path |-> "/dev/null", name |-> "user.foo", value |-> << "y" >>,
     schedPriority |-> 0, sysFail |-> 0, statFields |-> 52, swap |-> TRUE,
     bpfAttr |-> [prog_type |-> BPF_PROG_TYPE_CGROUP_DEVICE, attach_type |-> BPF_CGROUP_DEVICE,
                  insn_cnt |-> 2, log_size |-> 0, license |-> TRUE],
     bpfFail |-> "none", errno |-> ESRCH, addedFd |-> 5, tgid |-> 4242, tgidErr |-> FALSE,
     source |-> "none", target |-> "/mnt", fstype |-> "ext4", data |-> <<>>,
     signalErr |-> FALSE,
     mem |-> [limit |-> MemLimit, usage |-> 3, cache |-> 2]]

BridgeFailures ==
    { << "1" >>, << "5", "5" >>, << "1", "2", "3" >>, << "2", "2" >>, << "x" >>, <<>> }

CommonEnvs ==
    {BaseEnv, [BaseEnv EXCEPT !.taskids.err = TRUE],
     [BaseEnv EXCEPT !.taskids = Ids(100001, 100001, 100001, 100001)],
     [BaseEnv EXCEPT !.taskids = Ids(0, 0, 0, 0)]}
    \cup {[BaseEnv EXCEPT !.preadFail = n] : n \in 1..4}
    \cup {[BaseEnv EXCEPT !.bridge = [exit0 |-> FALSE, stderr |-> e]] : e \in BridgeFailures}
    \cup {[BaseEnv EXCEPT !.bridge = [exit0 |-> FALSE, stderr |-> << "1", "2", "3" >>],
                          !.insertErr = TRUE]}

SetxattrEnvs ==
    {[BaseEnv EXCEPT !.name = "trusted.overlay.opaque", !.value = v, !.bridge = b] :
        v \in {<< "y" >>, << "n" >>, <<>>},
        b \in {[exit0 |-> TRUE, stderr |-> <<>>], [exit0 |-> FALSE, stderr |-> << "1" >>]}}

SysinfoEnvs ==
    {[BaseEnv EXCEPT !.sysFail = n, !.swap = w] : n \in StepSysinfo..StepPwrite, w \in BOOLEAN}
    \cup {[BaseEnv EXCEPT !.swap = FALSE]}
    \cup {[BaseEnv EXCEPT !.mem = [limit |-> MemLimit, usage |-> u, cache |-> ch]] :
            u \in {0, 7, MemLimit, MemLimit + 1}, ch \in {0, 2}}

BpfFailures ==
    {"pread_attr", "pidfd_open", "id_valid", "pread_insn", "short_insn", "pread_license",
     "bpf", "addfd", "getfd_target", "getfd_attach", "not_shared", "leader_dead"}

BpfEnvs ==
    {[BaseEnv EXCEPT !.bpfFail = f] : f \in BpfFailures}
    \cup {[BaseEnv EXCEPT !.bpfAttr.prog_type = 1],
          [BaseEnv EXCEPT !.bpfAttr.attach_type = 0],
          [BaseEnv EXCEPT !.bpfAttr.insn_cnt = MaxBpfInsns],
          [BaseEnv EXCEPT !.bpfAttr.insn_cnt = MaxBpfInsns + 1],
          [BaseEnv EXCEPT !.bpfAttr.license = FALSE],
          [BaseEnv EXCEPT !.bpfAttr.log_size = 1, !.bpfFail = "bpf"],
          [BaseEnv EXCEPT !.tgidErr = TRUE],
          [BaseEnv EXCEPT !.tgid = -1],
          [BaseEnv EXCEPT !.tgid = 4000]}

MountEnvs ==
    {[BaseEnv EXCEPT !.fstype = t, !.bridge = b] :
        t \in {"xfs", "proc"},
        b \in {[exit0 |-> TRUE, stderr |-> <<>>], [exit0 |-> FALSE, stderr |-> << "1" >>]}}
    \cup {[BaseEnv EXCEPT !.fstype = "hugetlbfs", !.data = d] :
            d \in {<<>>, << << "uid", << "0" >> >> >>, << << "gid", << "x" >> >> >>,
                   << << "uid", << "7", "0", "0", "0", "0" >> >> >>,
                   << << "size", << "2", "M" >> >>, << "gid", << "5" >> >> >>}}
    \cup {[BaseEnv EXCEPT !.signalErr = TRUE]}

Envs == CommonEnvs \cup SetxattrEnvs \cup SysinfoEnvs \cup BpfEnvs \cup MountEnvs

(***************************************************************************)
(* Notifications                                                           *)
(***************************************************************************)
Req(id, pid, nr, arch, args) ==
    [id |-> id, pid |-> pid, flags |-> 0, nr |-> nr, arch |-> arch, args |-> args]

\* A user-space address.
Ptr == Small(4096)

Zero == Small(0)

ZeroArgs == << Zero, Zero, Zero, Zero, Zero, Zero >>

\* The response buffer as the peer sends it: zeroed, or with the id filled in.
EchoResp(id) == [NoResp EXCEPT !.id = id]

\* Register contents, read by each emulator in its own way.
EmuArgs ==
    { \* mknod(path, mode, dev)
      << Ptr, Small(S_IFCHR + 438), makedev(1, 3), Zero, Zero, Zero >>,
      << Ptr, Small(S_IFCHR + 438), makedev(5, 1), Zero, Zero, Zero >>,
      << Ptr, Small(S_IFCHR + 438), makedev(1, 4), Zero, Zero, Zero >>,
      << Ptr, Small(S_IFCHR + 438), U64(1, 259), Zero, Zero, Zero >>,
      << Ptr, Small(S_IFBLK + 432), makedev(8, 0), Zero, Zero, Zero >>,
      << Ptr, Small(S_IFBLK + 432), makedev(1, 3), Zero, Zero, Zero >>,
      << Ptr, Small(S_IFREG + 420), makedev(1, 3), Zero, Zero, Zero >>,
      \* mknodat(dirfd, path, mode, dev)
      << U64(-1, AT_FDCWD), Ptr, Small(S_IFCHR + 438), makedev(1, 3), Zero, Zero >>,
      << U64(0, AT_FDCWD), Ptr, Small(S_IFCHR + 438), makedev(1, 5), Zero, Zero >>,
      << U64(-1, AT_FDCWD), Ptr, Small(S_IFBLK + 432), makedev(8, 0), Zero, Zero >>,
      << U64(-1, AT_FDCWD), Ptr, Small(S_IFREG + 420), makedev(1, 3), Zero, Zero >>,
      << Small(3), Ptr, Small(S_IFCHR + 438), makedev(1, 3), Zero, Zero >>,
      << Small(3), Ptr, Small(S_IFBLK + 432), makedev(8, 0), Zero, Zero >>,
      \* setxattr(path, name, value, size, flags)
      << Ptr, Ptr, Ptr, Small(1), Zero, Zero >>,
      << Ptr, Ptr, Ptr, Small(2), Small(1), Zero >>,
      << Ptr, Ptr, Ptr, Zero, Zero, Zero >>,
      << Ptr, Ptr, Ptr, U64(-1, -1), Zero, Zero >>,
      \* sched_setscheduler(pid, policy, param)
      << Zero, Small(1), Ptr, Zero, Zero, Zero >>,
      << Small(5), Zero, Ptr, Zero, Zero, Zero >>,
      << Small(5), U64(0, -1), Ptr, Zero, Zero, Zero >>,
      << U64(-1, -1), Small(1), Ptr, Zero, Zero, Zero >>,
      << U64(0, -1), Small(1), Ptr, Zero, Zero, Zero >>,
      \* bpf(cmd, attr, size)
      << Small(BPF_PROG_LOAD), Ptr, Small(SizeofBpfAttr), Zero, Zero, Zero >>,
      << Small(BPF_PROG_LOAD), Ptr, Small(SizeofBpfAttr + 1), Zero, Zero, Zero >>,
      << Small(BPF_PROG_ATTACH), Ptr, Small(SizeofBpfAttr), Zero, Zero, Zero >>,
      << Small(BPF_PROG_DETACH), Ptr, Small(64), Zero, Zero, Zero >>,
      << Zero, Ptr, Small(SizeofBpfAttr), Zero, Zero, Zero >>,
      \* mount(source, target, fstype, flags, data)
      << Ptr, Ptr, Ptr, Zero, Ptr, Zero >>,
      << Zero, Ptr, Ptr, Small(1), Zero, Zero >>,
      ZeroArgs }

TableArchs == {seccomp_notify_syscall_table[i].arch : i \in 1..Len(seccomp_notify_syscall_table)}

\* Every number that stands in some slot of the table.
TableNrs ==
    {Slot(seccomp_notify_syscall_table[i], cat) :
        i \in 1..Len(seccomp_notify_syscall_table),
        cat \in INCUS_SECCOMP_NOTIFY_MKNOD..INCUS_SECCOMP_NOTIFY_SYSINFO}

\* Architectures the table does not list (alpha, and the zero word).
UnknownArchs == {-1073704922, 0}

UnknownNrs == {9999, -2}

RowOf(arch) ==
    seccomp_notify_syscall_table[CHOOSE i \in 1..Len(seccomp_notify_syscall_table) :
                                    seccomp_notify_syscall_table[i].arch = arch]

GoodFrame(monitor_pid, req, resp) ==
    Frame(SECCOMP_MSG_SIZE_MIN, 0, monitor_pid, expected_sizes, TRUE, req, resp)

\* Every architecture with every number: what the classifier can be asked.
ClassFrames ==
    {GoodFrame(1001, Req(7, 4242, nr, arch, ZeroArgs), NoResp) :
        arch \in TableArchs \cup UnknownArchs, nr \in TableNrs \cup UnknownNrs}

\* The calls of two architectures with every register contents, from
\* every instance and from a monitor the daemon does not know.
HandlerFrames ==
    {GoodFrame(m, Req(7, 4242, Slot(RowOf(arch), cat), arch, args), NoResp) :
        m \in DOMAIN Instances \cup {999},
        arch \in {AUDIT_ARCH_X86_64, AUDIT_ARCH_I386},
        cat \in INCUS_SECCOMP_NOTIFY_MKNOD..INCUS_SECCOMP_NOTIFY_SYSINFO,
        args \in EmuArgs}

EmuFrames ==
    ClassFrames \cup HandlerFrames
    \cup {GoodFrame(m, Req(7, 4242, 133, AUDIT_ARCH_X86_64, ZeroArgs), EchoResp(7)) :
            m \in {1001, 999}}

\* What one connection carries in the server runs: well-formed calls, a call
\* from an unknown monitor, and the ways a frame can be malformed.
MknodNull == Req(7, 4242, 133, AUDIT_ARCH_X86_64,
                 << Ptr, Small(S_IFCHR + 438), makedev(1, 3), Zero, Zero, Zero >>)

SysinfoCall == Req(10, 4245, 99, AUDIT_ARCH_X86_64, << Ptr, Zero, Zero, Zero, Zero, Zero >>)

SetxattrEmpty == Req(8, 4243, 188, AUDIT_ARCH_X86_64, << Ptr, Ptr, Ptr, Zero, Zero, Zero >>)

BadSizes ==
    {[expected_sizes EXCEPT !.seccomp_notif = @ + 8],
     [expected_sizes EXCEPT !.seccomp_notif_resp = @ - 8],
     [expected_sizes EXCEPT !.seccomp_data = @ + 16]}

ServerFrames ==
    {GoodFrame(1001, MknodNull, EchoResp(7)),
     GoodFrame(1001, SetxattrEmpty, NoResp),
     GoodFrame(1001, SysinfoCall, NoResp),
     GoodFrame(999, MknodNull, NoResp),
     Frame(SECCOMP_MSG_SIZE_MIN + SECCOMP_DATA_SIZE, 0, 1001, expected_sizes, FALSE,
           MknodNull, NoResp),
     Frame(SECCOMP_MSG_SIZE_MIN - 1, 0, 1001, expected_sizes, TRUE, MknodNull, NoResp),
     Frame(SECCOMP_MSG_SIZE_MIN, 1, 1001, expected_sizes, TRUE, MknodNull, NoResp)}
    \cup {Frame(SECCOMP_MSG_SIZE_MIN, 0, 1001, sz, TRUE, MknodNull, NoResp) : sz \in BadSizes}

ServerEnvs ==
    {BaseEnv,
     [BaseEnv EXCEPT !.bridge = [exit0 |-> FALSE, stderr |-> << "1", "2", "3" >>],
                     !.sysFail = StepPwrite]}

\* How many frames a connection delivers in the server runs.
MaxFrames == 2

\* s.OS: what the daemon probed of the kernel and of liblxc at start.
\* lxcTest is the outcome of the test container of lxcSupportSeccompNotify.
OS(cont, pidfds, thread) ==
    [SeccompListenerContinue |-> cont, PidFds |-> pidfds, PidFdsThread |-> thread,
     SeccompListener |-> TRUE, SeccompListenerAddfd |-> TRUE, seccomp_notify |-> TRUE,
     seccomp_allow_deny_syntax |-> TRUE, RunningInUserNS |-> FALSE, lxcTest |-> "ok"]

OSes == {OS(cont, pidfds, thread) : cont \in BOOLEAN, pidfds \in BOOLEAN, thread \in BOOLEAN}

\* No instance is being compiled for; no CreateProfile has run.
NoConfig == [config |-> EmptyMap, privileged |-> FALSE, archName |-> "x86_64"]

NoProfile ==
    [done |-> FALSE, compiled |-> FALSE, cerr |-> "", err |-> "", policy |-> <<>>,
     file |-> NoFile]

Init ==
    /\ os \in {o \in OSes : o.PidFds /\ o.PidFdsThread}
    /\ conn = "listening"
    /\ frames = <<>>
    /\ pconf = NoConfig
    /\ pout = NoProfile

Receive ==
    /\ Len(frames) < MaxFrames
    /\ \E f \in ServerFrames : ReceiveFrame(f)

ReceiveError ==
    /\ Len(frames) < MaxFrames
    /\ ReceiveFail

Next ==
    \/ Accept
    \/ Receive
    \/ ReceiveError
    \/ \E i \in 1..Len(frames) : HandleInvalid(i)
    \/ \E i \in 1..Len(frames) : HandleValidFind(i)
    \/ \E i \in 1..Len(frames) : \E env \in ServerEnvs : HandleValidSyscall(i, env)
    \/ \E i \in 1..Len(frames) : SendSeccompIovec(i)
    \/ \E i \in 1..Len(frames) : PutSeccompIovec(i)

Spec == Init /\ [][Next]_vars

\* One notification on its own, with every input the emulators distinguish.
InitEmu ==
    /\ os \in {o \in OSes : o.PidFds = o.PidFdsThread}
    /\ conn = "open"
    /\ frames = <<>>
    /\ pconf = NoConfig
    /\ pout = NoProfile

ReceiveOne ==
    /\ frames = <<>>
    /\ \E f \in EmuFrames : ReceiveFrame(f)

NextEmu ==
    \/ ReceiveOne
    \/ \E i \in 1..Len(frames) : HandleValidFind(i)
    \/ \E i \in 1..Len(frames) : \E env \in Envs : HandleValidSyscall(i, env)
    \/ \E i \in 1..Len(frames) : SendSeccompIovec(i)
    \/ \E i \in 1..Len(frames) : PutSeccompIovec(i)

SpecEmu == InitEmu /\ [][NextEmu]_vars

(***************************************************************************)
(* Profile compilation on its own                                          *)
(***************************************************************************)
BaseConfigs ==
    {EmptyMap,
     "raw.seccomp" :> << "2", NL, "denylist", NL, "kexec_load errno 1", NL >>,
     "raw.seccomp" :> <<>>,
     "security.syscalls.allow" :> << "read", NL, "write" >>,
     "security.syscalls.allow" :> << "read", NL, "write", NL >>,
     "security.syscalls.whitelist" :> << "read", NL >>,
     "security.syscalls.deny" :> << "ptrace" >>,
     "security.syscalls.blacklist" :> << "ptrace", NL >>,
     "security.syscalls.deny_default" :> "false",
     "security.syscalls.deny_default" :> "true",
     "security.syscalls.blacklist_default" :> "false",
     "security.syscalls.blacklist_compat" :> "true",
     ("security.syscalls.deny_default" :> "false")
         @@ ("security.syscalls.deny_compat" :> "true"),
     ("security.syscalls.deny_default" :> "false")
         @@ ("security.syscalls.deny" :> << "ptrace", NL >>),
     ("security.syscalls.allow" :> << "read", NL >>)
         @@ ("security.syscalls.deny" :> << "ptrace", NL >>)
         @@ ("security.syscalls.deny_compat" :> "true")
         @@ ("security.syscalls.deny_default" :> "true"),
     ("security.syscalls.whitelist" :> << "read", NL >>)
         @@ ("security.syscalls.blacklist" :> << "ptrace", NL >>)
         @@ ("security.syscalls.blacklist_compat" :> "true")}

InterceptConfigs ==
    {EmptyMap, [k \in InterceptKeys |-> "true"],
     "security.syscalls.intercept.mknod" :> "false",
     "security.syscalls.intercept.mknod" :> "maybe",
     "security.syscalls.intercept.mknod" :> "Yes",
     "security.syscalls.intercept.sysinfo" :> "",
     ("security.syscalls.intercept.mount" :> "true")
         @@ ("security.syscalls.intercept.bpf" :> "true"),
     ("security.syscalls.intercept.mknod" :> "true")
         @@ ("security.syscalls.intercept.mount" :> "false")}
    \cup {k :> "true" : k \in InterceptKeys}

PolicyInstances ==
    {[config |-> b @@ i, privileged |-> pa[1], archName |-> pa[2]] :
        b \in BaseConfigs, i \in InterceptConfigs,
        pa \in {<< FALSE, "x86_64" >>, << TRUE, "x86_64" >>, << FALSE, "" >>}}

PolicyOSes ==
    {OS(TRUE, TRUE, TRUE),
     OS(FALSE, TRUE, TRUE),
     [OS(TRUE, TRUE, TRUE) EXCEPT !.SeccompListener = FALSE],
     [OS(TRUE, TRUE, TRUE) EXCEPT !.seccomp_notify = FALSE],
     [OS(TRUE, TRUE, TRUE) EXCEPT !.lxcTest = "load"],
     [OS(TRUE, TRUE, TRUE) EXCEPT !.lxcTest = "proxy"],
     [OS(TRUE, TRUE, TRUE) EXCEPT !.SeccompListenerAddfd = FALSE],
     [OS(TRUE, TRUE, TRUE) EXCEPT !.RunningInUserNS = TRUE],
     [OS(TRUE, TRUE, TRUE) EXCEPT !.seccomp_allow_deny_syntax = FALSE]}

\* The members of a set in some order.
RECURSIVE SeqOf(_)
SeqOf(S) ==
    IF S = {} THEN <<>>
    ELSE << CHOOSE x \in S : TRUE >> \o SeqOf(S \ {CHOOSE x \in S : TRUE})

\* The arrangements of a set.
RECURSIVE Arrangements(_)
Arrangements(S) ==
    IF S = {} THEN {<<>>}
    ELSE UNION {{<< x >> \o ord : ord \in Arrangements(S \ {x})} : x \in S}

\* The orders in which the range over the keys map can meet its keys.  A
\* key whose value is false or empty is passed over wherever the range
\* meets it, so two orders differ in effect only by the order of the other
\* keys: every arrangement of those is taken, the passed-over keys after it.
KeyOrders(config) ==
    {ord \o SeqOf({k \in InterceptKeys : IsFalseOrEmpty(MapGet(config, k))}) :
        ord \in Arrangements({k \in InterceptKeys : ~IsFalseOrEmpty(MapGet(config, k))})}

InitPolicy ==
    /\ os \in PolicyOSes
    /\ conn = "listening"
    /\ frames = <<>>
    /\ pconf \in PolicyInstances
    /\ pout \in {NoProfile, [NoProfile EXCEPT !.file = << "2", NL, "old profile", NL >>]}

\* CreateProfile for the instance, on the start of the instance.
CreateProfileStep ==
    /\ ~pout.done
    /\ \E ni \in {InstanceNeedsIntercept(os, pconf, order) : order \in KeyOrders(pconf.config)},
          fs \in {"ok", "MkdirAll", "WriteFile"} :
          pout' = CreateProfile(os, pconf, ni, fs, pout.file)
    /\ UNCHANGED <<os, conn, frames, pconf>>

\* DeleteProfile: os.Remove(ProfilePath(c)), its error ignored.
DeleteProfile ==
    /\ pout.file # NoFile
    /\ pout' = [pout EXCEPT !.file = NoFile]
    /\ UNCHANGED <<os, conn, frames, pconf>>

NextPolicy ==
    \/ CreateProfileStep
    \/ DeleteProfile

SpecPolicy == InitPolicy /\ [][NextPolicy]_vars

(***************************************************************************)
(* The compiler on its own, for every configuration, those included for    *)
(* which CreateProfile does not call it                                    *)
(***************************************************************************)
\* profile, err := seccompGetPolicyContent(s, c)
GetPolicyContentStep ==
    /\ ~pout.done
    /\ \E order \in KeyOrders(pconf.config) :
          LET r == seccompGetPolicyContent(os, pconf, InstanceNeedsIntercept(os, pconf, order))
          IN  pout' = [done |-> TRUE, compiled |-> TRUE, cerr |-> r.err, err |-> r.err,
                       policy |-> r.policy, file |-> pout.file]
    /\ UNCHANGED <<os, conn, frames, pconf>>

NextCompile == GetPolicyContentStep

SpecCompile == InitPolicy /\ [][NextCompile]_vars

(***************************************************************************)
(* Image aliases (cmd/incus).  IsAliasesSubset(a1, a2) is called with two  *)
(* lists of api.ImageAlias; an alias is the record of its Name.            *)
(***************************************************************************)
AliasesSubsetFirstOnly(a1, a2) ==
    a1 = <<>> \/ \E j \in 1..Len(a2) : a2[j].Name = a1[1].Name

\* For every alias of a1 the list a2 is searched for one of the same name;
\* the first alias that is not found ends the call with false.
RECURSIVE IsAliasesSubset(_, _)
IsAliasesSubset(a1, a2) ==
    IF a1 = <<>> THEN TRUE
    ELSE IF \A j \in 1..Len(a2) : a2[j].Name # Head(a1).Name THEN FALSE
    ELSE IsAliasesSubset(Tail(a1), a2)

\* The longest alias list of a call.
MaxAliases == 3

AliasNames == {"foo", "bar", "baz"}

AliasLists ==
    UNION {[1..n -> {[Name |-> x] : x \in AliasNames}] : n \in 0..MaxAliases}

NoAnswer == [done |-> FALSE, result |-> FALSE]

InitAliases ==
    /\ os = OS(TRUE, TRUE, TRUE)
    /\ conn = "listening"
    /\ frames = <<>>
    /\ pconf \in {[a1 |-> x, a2 |-> y] : x \in AliasLists, y \in AliasLists}
    /\ pout = NoAnswer

\* IsAliasesSubset(a1, a2)
CallIsAliasesSubset ==
    /\ ~pout.done
    /\ pout' = [done |-> TRUE, result |-> IsAliasesSubset(pconf.a1, pconf.a2)]
    /\ UNCHANGED <<os, conn, frames, pconf>>

NextAliases == CallIsAliasesSubset

SpecAliases == InitAliases /\ [][NextAliases]_vars

(***************************************************************************)
(* The callhook command: cmdCallhook.run.  pconf is what the command is    *)
(* started with and what the daemon will answer; pout is the position of    *)
(* run and of the request goroutine, the response channel and the seconds  *)
(* the select has waited.                                                   *)
(***************************************************************************)
\* time.After(30 * time.Second)
HookTimeout == 30

\* A channel without a buffer.
UnbufferedChannel == Len(<<>>)

\* make(chan error, 1)
ResponseCap == 1

\* target: LXC_TARGET for the stop hooks, "unknown" when it is unset.
HookTarget(hook, lxcTarget) ==
    IF hook \in {"stop", "stopns"}
    THEN IF lxcTarget = "" THEN "unknown" ELSE lxcTarget
    ELSE ""

\* args after the path: the hook is the last of three or of four arguments.
HookOf(in) == IF in.nargs \in {3, 4} THEN in.hook ELSE ""

HookInputs ==
    {[nargs |-> n, euid |-> 0, connectErr |-> FALSE, hook |-> h, lxcTarget |-> t,
      answer |-> a] :
        n \in {2, 3, 4}, h \in {"start", "stop", "stopns", "restart"},
        t \in {"", "stop", "reboot"}, a \in {"", "not found"}}
    \cup {[nargs |-> n, euid |-> e, connectErr |-> ce, hook |-> "start", lxcTarget |-> "",
           answer |-> ""] :
            n \in {0, 1, 3}, e \in {0, 1000}, ce \in BOOLEAN}

HookIdle ==
    [pc |-> "start", gpc |-> "none", chan |-> <<>>, waited |-> 0, via |-> "none",
     ret |-> ""]

InitHook ==
    /\ os = OS(TRUE, TRUE, TRUE)
    /\ conn = "listening"
    /\ frames = <<>>
    /\ pconf \in HookInputs
    /\ pout = HookIdle

\* What run returns once the select has taken the response err.
AfterResponse(in, err) ==
    IF err # "" THEN err
    ELSE IF HookOf(in) = "stop" /\ HookTarget(HookOf(in), in.lxcTarget) = "reboot"
    THEN "Reboot must be handled by Incus"
    ELSE ""

\* run up to the start of the request goroutine: the quick checks, the
\* root check and the connection to the daemon.
HookPrepare ==
    /\ pout.pc = "start"
    /\ pout' = IF pconf.nargs < 2
               THEN [pout EXCEPT !.pc = "returned", !.via = "checks",
                                 !.ret = IF pconf.nargs = 0 THEN ""
                                         ELSE "Missing required arguments"]
               ELSE IF pconf.euid # 0
               THEN [pout EXCEPT !.pc = "returned", !.via = "checks",
                                 !.ret = "This must be run as root"]
               ELSE IF pconf.connectErr
               THEN [pout EXCEPT !.pc = "returned", !.via = "checks",
                                 !.ret = "connect failed"]
               ELSE [pout EXCEPT !.pc = "spawned", !.gpc = "query"]
    /\ UNCHANGED <<os, conn, frames, pconf>>

\* run reaches the select: a response already in the channel is taken at
\* once, otherwise run waits and the timer starts.
HookEnterSelect ==
    /\ pout.pc = "spawned"
    /\ pout' = IF pout.chan # <<>>
               THEN [pout EXCEPT !.pc = "returned", !.via = "response",
                                 !.chan = Tail(@),
                                 !.ret = AfterResponse(pconf, Head(pout.chan))]
               ELSE [pout EXCEPT !.pc = "select"]
    /\ UNCHANGED <<os, conn, frames, pconf>>

\* A second passes while run waits in the select.
HookTick ==
    /\ pout.pc = "select"
    /\ pout.waited < HookTimeout
    /\ pout' = [pout EXCEPT !.waited = @ + 1]
    /\ UNCHANGED <<os, conn, frames, pconf>>

\* The timer fires: case <-time.After(30 * time.Second).
HookTimerFires ==
    /\ pout.pc = "select"
    /\ pout.waited = HookTimeout
    /\ pout' = [pout EXCEPT !.pc = "returned", !.via = "timeout",
                            !.ret = "Hook didn't finish within 30s"]
    /\ UNCHANGED <<os, conn, frames, pconf>>

\* d.RawQuery returns in the request goroutine.
HookQueryReturns ==
    /\ pout.gpc = "query"
    /\ pout' = [pout EXCEPT !.gpc = "send"]
    /\ UNCHANGED <<os, conn, frames, pconf>>

\* response <- err.  With run waiting in the select the value goes to it
\* and decides the select; otherwise it goes into the buffer, if there is
\* room.
HookSend ==
    /\ pout.gpc = "send"
    /\ \/ /\ pout.pc = "select"
          /\ pout' = [pout EXCEPT !.gpc = "exited", !.pc = "returned", !.via = "response",
                                  !.ret = AfterResponse(pconf, pconf.answer)]
       \/ /\ pout.pc # "select"
          /\ Len(pout.chan) < ResponseCap
          /\ pout' = [pout EXCEPT !.gpc = "exited", !.chan = Append(@, pconf.answer)]
    /\ UNCHANGED <<os, conn, frames, pconf>>

NextHook ==
    \/ HookPrepare
    \/ HookEnterSelect
    \/ HookTick
    \/ HookTimerFires
    \/ HookQueryReturns
    \/ HookSend

\* run and the request goroutine are scheduled, time passes; whether the
\* daemon ever answers is left open.
SpecHook ==
    /\ InitHook /\ [][NextHook]_vars
    /\ WF_vars(HookPrepare) /\ WF_vars(HookEnterSelect) /\ WF_vars(HookTick)
    /\ WF_vars(HookTimerFires) /\ WF_vars(HookSend)

(***************************************************************************)
(* CompareSnapshots.  pconf is the call, pout its two results.  Snapshot   *)
(* names are unique within a volume; creation dates are instants after the *)
(* zero time.Time.                                                          *)
(***************************************************************************)
\* The latest creation date of the snapshots compared.
MaxDate == 2

\* var latestTargetSnapshotTime time.Time
ZeroTime == 0

SnapNames == {"snap0", "snap1"}

ComparableSnapshot(name, id, date) == [Name |-> name, ID |-> id, CreationDate |-> date]

ComparableSnapshots ==
    {ComparableSnapshot(n, id, d) : n \in SnapNames, id \in {"a", "b"}, d \in 1..MaxDate}

SnapshotLists ==
    {<<>>} \cup {<< s >> : s \in ComparableSnapshots}
    \cup {l \in {<< s, t >> : s \in ComparableSnapshots, t \in ComparableSnapshots} :
            l[1].Name # l[2].Name}

\* snapshotsByName[name]: the index of the entry the map holds for a name,
\* the last of that name, or 0 when the map has none.
ByName(snaps, name) ==
    LET at == {i \in DOMAIN snaps : snaps[i].Name = name}
    IN  IF at = {} THEN 0 ELSE CHOOSE i \in at : \A j \in at : j <= i

\* !a.CreationDate.Equal(b.CreationDate) || a.ID != b.ID
SnapshotDiffers(a, b) == a.CreationDate # b.CreationDate \/ a.ID # b.ID

\* The loop over the target snapshots from index i on; indexes count from 0
\* in the results, as the slices of the code do.
RECURSIVE TargetLoop(_, _, _, _, _)
TargetLoop(source, target, i, deleteFromTarget, latest) ==
    IF i > Len(target) THEN [delete |-> deleteFromTarget, latest |-> latest]
    ELSE LET s == ByName(source, target[i].Name)
         IN  IF s = 0 \/ SnapshotDiffers(source[s], target[i])
             THEN TargetLoop(source, target, i + 1, Append(deleteFromTarget, i - 1), latest)
             ELSE IF target[i].CreationDate > latest
             THEN TargetLoop(source, target, i + 1, deleteFromTarget, target[i].CreationDate)
             ELSE TargetLoop(source, target, i + 1, deleteFromTarget, latest)

\* The loop over the source snapshots from index i on.
RECURSIVE SourceLoop(_, _, _, _, _, _)
SourceLoop(source, target, excludeOlder, latest, i, syncFromSource) ==
    IF i > Len(source) THEN syncFromSource
    ELSE LET t == ByName(target, source[i].Name)
         IN  IF \/ (t = 0 /\ (~excludeOlder \/ source[i].CreationDate > latest))
                \/ (t # 0 /\ SnapshotDiffers(target[t], source[i]))
             THEN SourceLoop(source, target, excludeOlder, latest, i + 1,
                             Append(syncFromSource, i - 1))
             ELSE SourceLoop(source, target, excludeOlder, latest, i + 1, syncFromSource)

CompareSnapshots(sourceSnapshots, targetSnapshots, excludeOlder) ==
    LET t == TargetLoop(sourceSnapshots, targetSnapshots, 1, <<>>, ZeroTime)
    IN  [syncFromSource |-> SourceLoop(sourceSnapshots, targetSnapshots, excludeOlder,
                                       t.latest, 1, <<>>),
         deleteFromTarget |-> t.delete]

NotCompared == [done |-> FALSE, syncFromSource |-> <<>>, deleteFromTarget |-> <<>>]

InitSnapshots ==
    /\ os = OS(TRUE, TRUE, TRUE)
    /\ conn = "listening"
    /\ frames = <<>>
    /\ pconf \in {[source |-> s, target |-> t, excludeOlder |-> e] :
                    s \in SnapshotLists, t \in SnapshotLists, e \in BOOLEAN}
    /\ pout = NotCompared

CallCompareSnapshots ==
    /\ ~pout.done
    /\ LET r == CompareSnapshots(pconf.source, pconf.target, pconf.excludeOlder)
       IN  pout' = [done |-> TRUE, syncFromSource |-> r.syncFromSource,
                    deleteFromTarget |-> r.deleteFromTarget]
    /\ UNCHANGED <<os, conn, frames, pconf>>

NextSnapshots == CallCompareSnapshots

SpecSnapshots == InitSnapshots /\ [][NextSnapshots]_vars

(***************************************************************************)
(* Properties.  The notions they use are stated here from the wire format  *)
(* and the documented rules, apart from the operators of the model.        *)
(***************************************************************************)
\* A bundle that holds a frame (its receive succeeded).
Received(b) == b.pc # "leaked"

SizeMismatch(b) ==
    \/ b.msg.sizes.seccomp_notif # SECCOMP_NOTIFY_SIZE
    \/ b.msg.sizes.seccomp_notif_resp # SECCOMP_RESPONSE_SIZE
    \/ b.msg.sizes.seccomp_data # SECCOMP_DATA_SIZE

\* Too short, reserved field set, or a size that differs from the kernel's.
Malformed(b) ==
    \/ b.size < SECCOMP_PROXY_MSG_SIZE + SECCOMP_NOTIFY_SIZE + SECCOMP_RESPONSE_SIZE
    \/ b.msg.reserved # 0
    \/ SizeMismatch(b)

Finished(b) == b.pc \in {"done", "dead"}

\* The descriptors that came with the frame.
ReceivedFds(b) == {fd \in {b.procFd, b.memFd, b.notifyFd} : fd >= 0}

CloseCount(b, fd) == Cardinality({k \in DOMAIN b.closed : b.closed[k] = fd})

HasContinue(resp) == BitAnd(resp.flags, seccompUserNotifFlagContinue) # 0

\* C1: every frame that passes validation gets exactly one reply, never
\* zero and never two, whether or not its instance is found, and after the
\* reply each descriptor received with it is closed exactly once.
C1_ExactlyOneReply ==
    \A i \in 1..Len(frames) :
       (Received(frames[i]) /\ ~Malformed(frames[i])) =>
          /\ Len(frames[i].replies) <= 1
          /\ \A fd \in ReceivedFds(frames[i]) : CloseCount(frames[i], fd) <= 1
          /\ (frames[i].closed # <<>> \/ Finished(frames[i])) => Len(frames[i].replies) = 1
          /\ Finished(frames[i]) =>
                \A fd \in ReceivedFds(frames[i]) : CloseCount(frames[i], fd) = 1

\* C2: once a frame with a size field that differs from the cached sizes
\* has been received, no further frame is received on the connection.
C2_SizeMismatchEndsConnection ==
    \A i \in 1..Len(frames) :
       (Received(frames[i]) /\ SizeMismatch(frames[i])) =>
          \A j \in (i + 1)..Len(frames) : ~Received(frames[j])

\* C3: a malformed frame is never looked up, classified or emulated; it is
\* answered by one message of zero iovecs and nothing else, and its bundle
\* is released with the descriptors received closed once each.
C3_MalformedFrameOnlyEmptyReply ==
    \A i \in 1..Len(frames) :
       (Received(frames[i]) /\ Malformed(frames[i])) =>
          /\ ~frames[i].looked /\ ~frames[i].dispatched
          /\ frames[i].ops = <<>>
          /\ frames[i].pc \in {"invalid", "put", "done"}
          /\ Len(frames[i].replies) <= 1
          /\ \A k \in DOMAIN frames[i].replies : frames[i].replies[k].iovlen = 0
          /\ frames[i].pc \in {"put", "done"} => Len(frames[i].replies) = 1
          /\ frames[i].freed = (IF frames[i].pc = "done" THEN 1 ELSE 0)
          /\ \A fd \in ReceivedFds(frames[i]) :
                CloseCount(frames[i], fd) = (IF frames[i].pc = "done" THEN 1 ELSE 0)

\* A frame with the reserved field set has been answered and released.
C3_Witness ==
    \E i \in 1..Len(frames) :
       /\ frames[i].msg.reserved # 0
       /\ frames[i].pc = "done"
       /\ Len(frames[i].replies) = 1
       /\ ReceivedFds(frames[i]) # {}

EmulatorsButSysinfo ==
    {INCUS_SECCOMP_NOTIFY_MKNOD, INCUS_SECCOMP_NOTIFY_MKNODAT, INCUS_SECCOMP_NOTIFY_SETXATTR,
     INCUS_SECCOMP_NOTIFY_MOUNT, INCUS_SECCOMP_NOTIFY_SCHED_SETSCHEDULER,
     INCUS_SECCOMP_NOTIFY_BPF}

\* C4: with permissive mode off, no reply to a notification handled by the
\* mknod, mknodat, setxattr, mount, sched_setscheduler or bpf emulator has
\* the CONTINUE flag set.
C4_StrictNeverContinues ==
    ~os.SeccompListenerContinue =>
       \A i \in 1..Len(frames) :
          (frames[i].dispatched /\ frames[i].sc \in EmulatorsButSysinfo) =>
             \A k \in DOMAIN frames[i].replies : ~HasContinue(frames[i].replies[k].resp)

\* The devices a container may create: character devices with these numbers.
AllowSet ==
    {makedev(0, 0), makedev(1, 3), makedev(1, 5), makedev(1, 7), makedev(1, 8),
     makedev(1, 9), makedev(5, 0), makedev(5, 1)}

\* mode and dev of a mknod(path, mode, dev) or mknodat(dirfd, path, mode, dev).
MknodMode(b) ==
    IF b.sc = INCUS_SECCOMP_NOTIFY_MKNOD THEN Arg(b.req, 1).lo ELSE Arg(b.req, 2).lo

MknodDev(b) ==
    IF b.sc = INCUS_SECCOMP_NOTIFY_MKNOD THEN Arg(b.req, 2) ELSE Arg(b.req, 3)

IsMknod(b) ==
    b.dispatched /\ b.sc \in {INCUS_SECCOMP_NOTIFY_MKNOD, INCUS_SECCOMP_NOTIFY_MKNODAT}

InAllowSet(b) ==
    /\ (MknodMode(b) \div 4096) % 16 = S_IFCHR \div 4096
    /\ MknodDev(b) \in AllowSet

Calls(b, names) == {k \in DOMAIN b.ops : b.ops[k].op \in names}

\* C5: for a mknod or mknodat notification whose (mode, dev) is not in the
\* allow-set, in either mode, the bridge is not invoked and the device is
\* not inserted into the instance.
C5_DisallowedDeviceNeverForked ==
    \A i \in 1..Len(frames) :
       (IsMknod(frames[i]) /\ ~InAllowSet(frames[i])) =>
          Calls(frames[i], {"bridge", "insert"}) = {}

\* A block device with the numbers of /dev/null was asked for with mknod,
\* and the notification has been answered.
C5_Witness ==
    \E i \in 1..Len(frames) :
       /\ IsMknod(frames[i]) /\ frames[i].pc = "done"
       /\ MknodDev(frames[i]) = makedev(1, 3) /\ ~InAllowSet(frames[i])
       /\ Len(frames[i].replies) = 1

\* C6: with permissive mode off, a mknod notification, or a mknodat one
\* with dirfd AT_FDCWD, for a device outside the allow-set is answered with
\* error = -EPERM and flags = 0.
C6_StrictDisallowedIsEPERM ==
    ~os.SeccompListenerContinue =>
       \A i \in 1..Len(frames) :
          (/\ IsMknod(frames[i]) /\ ~InAllowSet(frames[i])
           /\ (frames[i].sc = INCUS_SECCOMP_NOTIFY_MKNODAT
                  => Arg(frames[i].req, 0).lo = AT_FDCWD)) =>
             \A k \in DOMAIN frames[i].replies :
                /\ frames[i].replies[k].resp.error = -EPERM
                /\ frames[i].replies[k].resp.flags = 0

\* rule stands in text as a complete line.
HasLine(text, rule) ==
    \E i \in 1..Len(text) :
       /\ text[i] = rule
       /\ (i = 1 \/ text[i - 1] = NL)
       /\ (i = Len(text) \/ text[i + 1] = NL)

InterceptEnabled(config) ==
    \E k \in InterceptKeys : k \in DOMAIN config /\ ToLower(config[k]) \in {"true", "1", "yes", "on"}

\* C7: when at least one interception category is enabled, the profile the
\* compiler produces holds both anti-escape rules, each as a complete line,
\* in allow-list and deny-list mode and with raw.seccomp set.
C7_EscapeDenyPresent ==
    (pout.compiled /\ pout.cerr = "" /\ InterceptEnabled(pconf.config)) =>
       /\ HasLine(pout.policy, "seccomp errno 22 [1,2146435072,SCMP_CMP_MASKED_EQ,2146435072]")
       /\ HasLine(pout.policy, "seccomp errno 22 [1,8,SCMP_CMP_MASKED_EQ,8]")

AllEmulators == EmulatorsButSysinfo \cup {INCUS_SECCOMP_NOTIFY_SYSINFO}

IsTargetRead(o) == o.op = "pread" /\ o.a # "err"

\* An attempt to write into the target's memory.
IsTargetWrite(o) == o.op = "pwrite"

IsIdValid(o) == o.op = "ioctl_id_valid"

RepliedSuccess(b) ==
    \E k \in DOMAIN b.replies :
       b.replies[k].resp.error = 0 /\ ~HasContinue(b.replies[k].resp)

\* The positions of the trace at which the target's memory was read.
TargetReads(b) == {r \in DOMAIN b.ops : IsTargetRead(b.ops[r])}

FirstRead(b) == CHOOSE r \in TargetReads(b) : \A q \in TargetReads(b) : r <= q

IdValidWithin(b, from, to) == \E v \in from..to : IsIdValid(b.ops[v])

\* C8: in every emulator that has read the target's memory, the ID_VALID
\* ioctl is issued after the read and before anything is written back to
\* the target and before success is replied, and a failure of that ioctl
\* makes the reply carry a negative errno.
C8_IdValidAfterRead ==
    \A i \in 1..Len(frames) :
       (frames[i].dispatched /\ frames[i].sc \in AllEmulators) =>
          /\ TargetReads(frames[i]) # {} =>
                /\ \A w \in (FirstRead(frames[i]) + 1)..Len(frames[i].ops) :
                      IsTargetWrite(frames[i].ops[w]) =>
                         IdValidWithin(frames[i], FirstRead(frames[i]) + 1, w - 1)
                /\ RepliedSuccess(frames[i]) =>
                      IdValidWithin(frames[i], FirstRead(frames[i]) + 1, Len(frames[i].ops))
          /\ (\E v \in DOMAIN frames[i].ops :
                 IsIdValid(frames[i].ops[v]) /\ frames[i].ops[v].a = "err") =>
                \A k \in DOMAIN frames[i].replies : frames[i].replies[k].resp.error < 0

\* The table has no row of this arch with a slot that holds nr.
NoSlot(arch, nr) ==
    \A r \in DOMAIN seccomp_notify_syscall_table :
       seccomp_notify_syscall_table[r].arch = arch =>
          \A cat \in INCUS_SECCOMP_NOTIFY_MKNOD..INCUS_SECCOMP_NOTIFY_SYSINFO :
             Slot(seccomp_notify_syscall_table[r], cat) # nr

\* C9: a notification whose (arch, nr) the table does not hold is answered
\* with error = -EINVAL, and neither an emulator nor the bridge runs for it,
\* in permissive and strict mode alike.
C9_UnknownSyscallIsEINVAL ==
    \A i \in 1..Len(frames) :
       (frames[i].dispatched /\ NoSlot(frames[i].req.arch, frames[i].req.nr)) =>
          /\ frames[i].sc = -EINVAL
          /\ frames[i].ops = <<>>
          /\ ~frames[i].panic
          /\ frames[i].pc \in {"send", "put", "done"}
          /\ frames[i].pc \in {"put", "done"} => Len(frames[i].replies) >= 1
          /\ \A k \in DOMAIN frames[i].replies :
                /\ frames[i].replies[k].iovlen = 3
                /\ frames[i].replies[k].resp.error = -EINVAL
                /\ frames[i].replies[k].resp.flags = 0

\* In strict mode, the mknod number of x86_64 under an arch that has no row
\* has been answered with -EINVAL.
C9_Witness ==
    \E i \in 1..Len(frames) :
       /\ frames[i].dispatched /\ frames[i].pc = "done"
       /\ ~os.SeccompListenerContinue
       /\ frames[i].req.arch \in UnknownArchs /\ frames[i].req.nr = 133
       /\ Len(frames[i].replies) = 1
       /\ frames[i].replies[1].resp.error = -EINVAL

\* C10: a slot that holds -1 never matches: a notification of an arch is
\* not classified to a category whose slot in the row of that arch is -1,
\* whatever its nr.
C10_MinusOneSlotNeverMatches ==
    \A i \in 1..Len(frames) :
       frames[i].dispatched =>
          \A r \in DOMAIN seccomp_notify_syscall_table :
             \A cat \in INCUS_SECCOMP_NOTIFY_MKNOD..INCUS_SECCOMP_NOTIFY_SYSINFO :
                (/\ seccomp_notify_syscall_table[r].arch = frames[i].req.arch
                 /\ Slot(seccomp_notify_syscall_table[r], cat) = -1)
                   => frames[i].sc # cat

Categories == INCUS_SECCOMP_NOTIFY_MKNOD..INCUS_SECCOMP_NOTIFY_SYSINFO

\* Within each row the slots that are not -1 differ pairwise, and no two
\* rows have the same arch.
TableWellFormed ==
    /\ \A r \in DOMAIN seccomp_notify_syscall_table :
          \A c1, c2 \in Categories :
             (/\ c1 # c2
              /\ Slot(seccomp_notify_syscall_table[r], c1) # -1)
                => Slot(seccomp_notify_syscall_table[r], c1)
                      # Slot(seccomp_notify_syscall_table[r], c2)
    /\ \A r1, r2 \in DOMAIN seccomp_notify_syscall_table :
          r1 # r2 => seccomp_notify_syscall_table[r1].arch
                        # seccomp_notify_syscall_table[r2].arch

\* C11: the slots of a row other than -1 are pairwise distinct and no arch
\* has two rows, so a notification whose nr stands in a slot other than -1
\* of the row of its arch is classified to the category of that slot and to
\* no other.
C11_ClassifierTotality ==
    /\ TableWellFormed
    /\ \A i \in 1..Len(frames) :
          frames[i].dispatched =>
             \A r \in DOMAIN seccomp_notify_syscall_table :
                \A cat \in Categories :
                   (/\ seccomp_notify_syscall_table[r].arch = frames[i].req.arch
                    /\ frames[i].req.nr # -1
                    /\ Slot(seccomp_notify_syscall_table[r], cat) = frames[i].req.nr)
                      => frames[i].sc = cat

\* The sysinfo number of mips64 has been classified, and the notification
\* answered.
C11_Witness ==
    \E i \in 1..Len(frames) :
       /\ frames[i].dispatched /\ frames[i].pc = "done"
       /\ frames[i].req.arch = AUDIT_ARCH_MIPS64 /\ frames[i].req.nr = 5097
       /\ frames[i].sc = INCUS_SECCOMP_NOTIFY_SYSINFO

\* The monitor of the frame is the monitor of no instance.
Unresolved(b) == b.looked /\ b.msg.monitor_pid \notin DOMAIN Instances

\* C12: when no instance is found for the monitor_pid of a frame, nothing is
\* classified or emulated and the bridge does not run; the reply is
\* error = -EPERM without CONTINUE in strict mode, and error = 0 with
\* flags = CONTINUE in permissive mode.
C12_UnresolvedInstanceReply ==
    \A i \in 1..Len(frames) :
       Unresolved(frames[i]) =>
          /\ ~frames[i].dispatched
          /\ frames[i].ops = <<>>
          /\ Len(frames[i].replies) <= 1
          /\ Finished(frames[i]) => Len(frames[i].replies) = 1
          /\ \A k \in DOMAIN frames[i].replies :
                /\ frames[i].replies[k].iovlen = 3
                /\ IF os.SeccompListenerContinue
                   THEN /\ frames[i].replies[k].resp.error = 0
                        /\ frames[i].replies[k].resp.flags = seccompUserNotifFlagContinue
                   ELSE /\ frames[i].replies[k].resp.error = -EPERM
                        /\ ~HasContinue(frames[i].replies[k].resp)

\* In strict mode a frame of an unknown monitor has been answered.
C12_Witness ==
    \E i \in 1..Len(frames) :
       /\ Unresolved(frames[i]) /\ frames[i].pc = "done"
       /\ ~os.SeccompListenerContinue
       /\ Len(frames[i].replies) = 1
       /\ frames[i].replies[1].resp.error = -EPERM

\* C13: every reply sent for a frame that passed validation carries the id
\* of the request of that frame, whether the instance was found or not.
C13_ReplyCarriesRequestId ==
    \A i \in 1..Len(frames) :
       (Received(frames[i]) /\ ~Malformed(frames[i])) =>
          \A k \in DOMAIN frames[i].replies :
             frames[i].replies[k].resp.id = frames[i].req.id

IsSysinfo(b) == b.dispatched /\ b.sc = INCUS_SECCOMP_NOTIFY_SYSINFO

\* The positions of the trace at which the struct was written into the
\* target's memory, the write succeeding.
SysinfoWritten(b) == {k \in DOMAIN b.ops : b.ops[k].op = "pwrite" /\ ~b.ops[k].a.err}

RepliedPlainSuccess(r) == r.resp.error = 0 /\ ~HasContinue(r.resp)

\* C14: a reply for a sysinfo notification is sent only after the emulator
\* has returned, its pwrite included, and a reply with error = 0 and without
\* CONTINUE is sent only when the pwrite succeeded.
C14_SysinfoWriteBeforeReply ==
    \A i \in 1..Len(frames) :
       (Received(frames[i]) /\ ~Malformed(frames[i])
        /\ frames[i].msg.monitor_pid \in DOMAIN Instances
        /\ frames[i].req.arch = AUDIT_ARCH_X86_64 /\ frames[i].req.nr = 99) =>
          /\ frames[i].replies # <<>> => IsSysinfo(frames[i])
          /\ frames[i].pc \in {"lookup", "dispatch"} =>
                frames[i].ops = <<>> /\ frames[i].replies = <<>>
          /\ \A k \in DOMAIN frames[i].replies :
                RepliedPlainSuccess(frames[i].replies[k]) => SysinfoWritten(frames[i]) # {}

\* A sysinfo notification whose pwrite succeeded has been answered while
\* another frame of the connection is still being handled.
C14_Witness ==
    \E i, j \in 1..Len(frames) :
       /\ i # j /\ frames[j].pc \in {"lookup", "dispatch", "send"}
       /\ IsSysinfo(frames[i]) /\ frames[i].pc = "done"
       /\ SysinfoWritten(frames[i]) # {}
       /\ Len(frames[i].replies) = 1
       /\ RepliedPlainSuccess(frames[i].replies[1])

\* C15: a sysinfo notification whose emulation succeeded, the pwrite
\* included, is answered with error = 0, val = 0 and no CONTINUE; a sysinfo
\* reply carries CONTINUE only when a step of the emulation failed.
C15_SysinfoSuccessNoContinue ==
    \A i \in 1..Len(frames) :
       IsSysinfo(frames[i]) =>
          \A k \in DOMAIN frames[i].replies :
             /\ frames[i].replies[k].resp.error = 0
             /\ frames[i].replies[k].resp.val = 0
             /\ HasContinue(frames[i].replies[k].resp) <=> SysinfoWritten(frames[i]) = {}

\* A 32-bit sysinfo on a 64-bit instance was emulated and answered.
C15_Witness ==
    \E i \in 1..Len(frames) :
       /\ IsSysinfo(frames[i]) /\ frames[i].pc = "done"
       /\ frames[i].req.arch = AUDIT_ARCH_I386
       /\ SysinfoWritten(frames[i]) # {}
       /\ Len(frames[i].replies) = 1
       /\ frames[i].replies[1].resp.flags = 0

IsSched(b) == b.dispatched /\ b.sc = INCUS_SECCOMP_NOTIFY_SCHED_SETSCHEDULER

\* What TaskIDs returned to the emulator, when it returned ids.
GotIds(b) == {k \in DOMAIN b.ops : b.ops[k].op = "taskids" /\ ~b.ops[k].a.err}

\* A host id as seen through the id-map of the instance; -1 when unmapped.
SeenInNS(c, id) ==
    IF c.idmap.hostid <= id /\ id < c.idmap.hostid + c.idmap.maprange
    THEN id - c.idmap.hostid ELSE -1

\* The caller is root of the namespace of its instance.
NamespaceRoot(b) ==
    \A k \in GotIds(b) : SeenInNS(b.c, b.ops[k].a.uid) = 0 /\ SeenInNS(b.c, b.ops[k].a.gid) = 0

Shifted(b) == GotIds(b) # {} /\ ~b.c.idmapErr

\* C16: a sched_setscheduler notification of a caller that is not root of
\* the namespace never reaches the bridge; it is answered with
\* error = -EINVAL, flags = 0 in strict mode and with error = 0,
\* flags = CONTINUE in permissive mode.
C16_SchedNonRootRefused ==
    \A i \in 1..Len(frames) :
       (IsSched(frames[i]) /\ Shifted(frames[i]) /\ ~NamespaceRoot(frames[i])) =>
          /\ Calls(frames[i], {"bridge", "pread"}) = {}
          /\ \A k \in DOMAIN frames[i].replies :
                IF os.SeccompListenerContinue
                THEN /\ frames[i].replies[k].resp.error = 0
                     /\ frames[i].replies[k].resp.flags = seccompUserNotifFlagContinue
                ELSE /\ frames[i].replies[k].resp.error = -EINVAL
                     /\ frames[i].replies[k].resp.flags = 0

\* In strict mode a caller with uid 1 in the namespace has been refused.
C16_Witness ==
    \E i \in 1..Len(frames) :
       /\ IsSched(frames[i]) /\ Shifted(frames[i]) /\ frames[i].pc = "done"
       /\ ~os.SeccompListenerContinue
       /\ \E k \in GotIds(frames[i]) : SeenInNS(frames[i].c, frames[i].ops[k].a.uid) = 1
       /\ Len(frames[i].replies) = 1
       /\ frames[i].replies[1].resp.error = -EINVAL

\* args[0] read as a 64-bit int, args[1] as a C int.
SchedTargetNegative(b) == Arg(b.req, 0).hi < 0

SchedPolicyNegative(b) == Arg(b.req, 1).lo < 0

\* C17: for a caller that is root of the namespace, sched_setscheduler with
\* a negative target pid or a negative policy never reaches the bridge and
\* is answered with -EINVAL in strict mode; the bridge is never run with a
\* negative policy.
C17_SchedNegativeRefused ==
    \A i \in 1..Len(frames) :
       (/\ IsSched(frames[i]) /\ Shifted(frames[i]) /\ NamespaceRoot(frames[i])
        /\ (SchedTargetNegative(frames[i]) \/ SchedPolicyNegative(frames[i]))) =>
          /\ Calls(frames[i], {"bridge"}) = {}
          /\ ~os.SeccompListenerContinue =>
                \A k \in DOMAIN frames[i].replies :
                   frames[i].replies[k].resp.error = -EINVAL

IsSetxattr(b) == b.dispatched /\ b.sc = INCUS_SECCOMP_NOTIFY_SETXATTR

\* The positions of the trace at which the name, and the size bytes of the
\* value, were read from the target's memory.
XattrRead(b, what) == {k \in DOMAIN b.ops : b.ops[k].op = "pread" /\ b.ops[k].a = what}

\* What the target asked for is the overlay whiteout: that name, and a
\* value of exactly the one byte "y".
AsksWhiteout(b) ==
    /\ \A k \in XattrRead(b, "name") : b.ops[k].data = "trusted.overlay.opaque"
    /\ \A k \in XattrRead(b, "value") : b.ops[k].data = << "y" >>

BridgeSucceeded(b) == \E k \in Calls(b, {"bridge"}) : b.ops[k].data.exit0

\* C18: once the setxattr emulator has read the value, it runs the bridge
\* with whiteout=1 exactly when the name is "trusted.overlay.opaque" and the
\* size bytes read are "y", and the reply is error 0 without flags when the
\* bridge succeeds; for every other name and value the bridge is never run
\* with whiteout=1, and in permissive mode it is not run at all and the
\* reply is error 0 with CONTINUE.
C18_SetxattrWhiteout ==
    \A i \in 1..Len(frames) :
       (IsSetxattr(frames[i]) /\ XattrRead(frames[i], "value") # {}) =>
          IF AsksWhiteout(frames[i])
          THEN /\ Cardinality(Calls(frames[i], {"bridge"})) = 1
               /\ \A k \in Calls(frames[i], {"bridge"}) : frames[i].ops[k].a.whiteout = 1
               /\ BridgeSucceeded(frames[i]) =>
                     \A k \in DOMAIN frames[i].replies :
                        /\ frames[i].replies[k].resp.error = 0
                        /\ frames[i].replies[k].resp.flags = 0
          ELSE /\ \A k \in Calls(frames[i], {"bridge"}) : frames[i].ops[k].a.whiteout = 0
               /\ os.SeccompListenerContinue =>
                     /\ Calls(frames[i], {"bridge"}) = {}
                     /\ \A k \in DOMAIN frames[i].replies :
                           /\ frames[i].replies[k].resp.error = 0
                           /\ frames[i].replies[k].resp.flags = seccompUserNotifFlagContinue

\* C18 witness: in permissive mode the whiteout was asked for, the bridge
\* ran with whiteout=1 and succeeded, and the reply has been sent.
C18_Witness ==
    \E i \in 1..Len(frames) :
       /\ IsSetxattr(frames[i]) /\ XattrRead(frames[i], "value") # {}
       /\ os.SeccompListenerContinue
       /\ AsksWhiteout(frames[i]) /\ BridgeSucceeded(frames[i])
       /\ frames[i].replies # <<>>

IsBpf(b) == b.dispatched /\ b.sc = INCUS_SECCOMP_NOTIFY_BPF

\* The command of a bpf notification, when it is one of the 32-bit values.
BpfCmd(b) == IF Arg(b.req, 0).hi = 0 THEN Arg(b.req, 0).lo ELSE -1

\* The positions of the trace at which the bpf_attr was read.
AttrRead(b) == {k \in DOMAIN b.ops : b.ops[k].op = "pread" /\ b.ops[k].a = "bpf_attr"}

\* A load of a cgroup-device program with more than a million instructions,
\* the notification still being valid once its bpf_attr has been read.
OversizedLoad(b) ==
    /\ IsBpf(b) /\ BpfCmd(b) = BPF_PROG_LOAD /\ AttrRead(b) # {}
    /\ \E k \in DOMAIN b.ops : b.ops[k].op = "ioctl_id_valid" /\ b.ops[k].a = "ok"
    /\ \A k \in AttrRead(b) :
          /\ b.ops[k].data.prog_type = BPF_PROG_TYPE_CGROUP_DEVICE
          /\ b.ops[k].data.insn_cnt > 1000000

\* C19: a cgroup-device BPF_PROG_LOAD with insn_cnt above 1,000,000 is
\* rejected after the bpf_attr read, before any read of the instructions
\* and before any host bpf(), and its reply carries error = -EINVAL.
C19_OversizedLoadIsEINVAL ==
    \A i \in 1..Len(frames) :
       OversizedLoad(frames[i]) =>
          /\ Calls(frames[i], {"bpf"}) = {}
          /\ \A k \in Calls(frames[i], {"pread"}) : frames[i].ops[k].a = "bpf_attr"
          /\ \A k \in DOMAIN frames[i].replies :
                frames[i].replies[k].resp.error = -EINVAL

\* The bpf_attr that was read names the cgroup-device type in the field the
\* command looks at: prog_type for a load, attach_type for attach and detach.
CgroupDeviceType(b) ==
    /\ AttrRead(b) # {}
    /\ \A k \in AttrRead(b) :
          IF BpfCmd(b) = BPF_PROG_LOAD
          THEN b.ops[k].data.prog_type = BPF_PROG_TYPE_CGROUP_DEVICE
          ELSE b.ops[k].data.attach_type = BPF_CGROUP_DEVICE

BpfEmulable(b) ==
    /\ b.c.bpfDevices
    /\ BpfCmd(b) \in {BPF_PROG_LOAD, BPF_PROG_ATTACH, BPF_PROG_DETACH}
    /\ CgroupDeviceType(b)

\* C20: the host bpf() is issued only for an instance that enabled
\* security.syscalls.intercept.bpf.devices, a command among BPF_PROG_LOAD,
\* BPF_PROG_ATTACH and BPF_PROG_DETACH, and the cgroup-device program type
\* (load) or attach type (attach, detach); in every other case there is no
\* host bpf(), no pidfd_getfd and no ADDFD.
C20_BpfOnlyWhenOptedIn ==
    \A i \in 1..Len(frames) :
       (IsBpf(frames[i]) /\ ~BpfEmulable(frames[i])) =>
          Calls(frames[i], {"bpf", "pidfd_getfd", "ioctl_addfd"}) = {}

\* C20 witness: an opted-in instance sent BPF_PROG_ATTACH with an attach type
\* other than the cgroup-device one, its bpf_attr was read, and the
\* notification has been answered.
C20_Witness ==
    \E i \in 1..Len(frames) :
       /\ IsBpf(frames[i]) /\ frames[i].replies # <<>>
       /\ BpfCmd(frames[i]) = BPF_PROG_ATTACH
       /\ AttrRead(frames[i]) # {} /\ ~CgroupDeviceType(frames[i])
       /\ frames[i].c.bpfDevices

\* The capabilities a category needs, read off the host: kernel and runtime
\* notify support for all, continue for mount and bpf, addfd for bpf.
NotifySupport == os.SeccompListener /\ os.seccomp_notify /\ os.lxcTest = "ok"

CapabilityMissing(k) ==
    \/ ~NotifySupport
    \/ (k \in {"security.syscalls.intercept.mount", "security.syscalls.intercept.bpf"}
        /\ ~os.SeccompListenerContinue)
    \/ (k = "security.syscalls.intercept.bpf" /\ ~os.SeccompListenerAddfd)

CategoryEnabled(k) ==
    k \in DOMAIN pconf.config /\ ToLower(pconf.config[k]) \in {"true", "1", "yes", "on"}

\* The notify rules of a category, as lines of a profile.
NotifyLines(k) ==
    CASE k = "security.syscalls.intercept.mknod" ->
            {"mknod notify [1,8192,SCMP_CMP_MASKED_EQ,61440]",
             "mknod notify [1,24576,SCMP_CMP_MASKED_EQ,61440]",
             "mknodat notify [2,8192,SCMP_CMP_MASKED_EQ,61440]",
             "mknodat notify [2,24576,SCMP_CMP_MASKED_EQ,61440]"}
      [] k = "security.syscalls.intercept.sched_setscheduler" -> {"sched_setscheduler notify"}
      [] k = "security.syscalls.intercept.setxattr" -> {"setxattr notify [3,1,SCMP_CMP_EQ]"}
      [] k = "security.syscalls.intercept.sysinfo" -> {"sysinfo notify"}
      [] k = "security.syscalls.intercept.mount" ->
            {"mount notify [3,0,SCMP_CMP_MASKED_EQ,18446744070422410016]"}
      [] k = "security.syscalls.intercept.bpf" ->
            {"bpf notify [0,5,SCMP_CMP_EQ]", "bpf notify [0,8,SCMP_CMP_EQ]",
             "bpf notify [0,9,SCMP_CMP_EQ]"}

Unprivileged == ~pconf.privileged /\ ~os.RunningInUserNS

LacksCapability == \E k \in InterceptKeys : CategoryEnabled(k) /\ CapabilityMissing(k)

\* What C21 asks of one run of CreateProfile.
RefusedUnchanged ==
    /\ pout'.compiled /\ pout'.cerr # "" /\ pout'.err # ""
    /\ pout'.file = pout.file

NoRuleWithoutCapability(text) ==
    \A k \in InterceptKeys : CapabilityMissing(k) => \A l \in NotifyLines(k) : ~HasLine(text, l)

\* C21 as stated: for an unprivileged, non-nested instance with an enabled
\* category whose capability is missing, CreateProfile returns the error of
\* the compiler and leaves the profile file as it was; no profile it emits
\* holds a notify rule of a category whose capability is missing.
C21_MissingCapabilityRefused ==
    [][(~pout.done /\ pout'.done /\ Unprivileged) =>
          /\ LacksCapability => RefusedUnchanged
          /\ (pout'.compiled /\ pout'.cerr = "") => NoRuleWithoutCapability(pout'.policy)]_vars

\* C21 amended: the same, for an instance that does not set raw.seccomp,
\* which replaces the compiled profile as a whole.
C21_MissingCapabilityRefusedNoRaw ==
    [][(~pout.done /\ pout'.done /\ Unprivileged /\ TextGet(pconf.config, "raw.seccomp") = <<>>) =>
          /\ LacksCapability => RefusedUnchanged
          /\ (pout'.compiled /\ pout'.cerr = "") => NoRuleWithoutCapability(pout'.policy)]_vars

\* C21 witness: bpf interception is enabled on a host without addfd, no
\* raw.seccomp is set, a profile file existed, and CreateProfile has
\* returned the error.
C21_Witness ==
    /\ pout.done /\ Unprivileged /\ TextGet(pconf.config, "raw.seccomp") = <<>>
    /\ CategoryEnabled("security.syscalls.intercept.bpf")
    /\ NotifySupport /\ os.SeccompListenerContinue /\ ~os.SeccompListenerAddfd
    /\ pout.cerr # "" /\ pout.file # NoFile

\* What the compiler returns in a run of CreateProfile whose range over the
\* keys map meets the keys in the given order.
CompiledWith(order) ==
    seccompGetPolicyContent(os, pconf, InstanceNeedsIntercept(os, pconf, order))

\* C22: the compiler is deterministic.  Whatever a compilation returned, a
\* second compilation of the same configuration on the same host returns
\* the same: the same profile text, or the same error, in whichever order
\* its range over the keys map meets the keys.
C22_CompilerDeterministic ==
    [][(~pout.done /\ pout'.done /\ pout'.compiled) =>
          \A order \in KeyOrders(pconf.config) :
             /\ CompiledWith(order).err = pout'.cerr
             /\ CompiledWith(order).policy = pout'.policy]_vars

\* C22 witness: a compilation with every intercept category enabled has
\* returned a profile, on a host with every capability.
C22_Witness ==
    /\ pout.done /\ pout.compiled /\ pout.cerr = ""
    /\ Unprivileged
    /\ \A k \in InterceptKeys : CategoryEnabled(k)
    /\ \A l \in NotifyLines("security.syscalls.intercept.bpf") : HasLine(pout.policy, l)

\* The keys of a configuration, in either spelling.
AllowDenyRawKeys ==
    {"raw.seccomp", "security.syscalls.allow", "security.syscalls.whitelist",
     "security.syscalls.deny", "security.syscalls.blacklist",
     "security.syscalls.deny_compat", "security.syscalls.blacklist_compat"}

\* The default-deny flag: deny_default, or blacklist_default when the former
\* is not set.
DefaultDenySet ==
    \/ "security.syscalls.deny_default" \in DOMAIN pconf.config
    \/ "security.syscalls.blacklist_default" \in DOMAIN pconf.config

DefaultDenyValue ==
    IF "security.syscalls.deny_default" \in DOMAIN pconf.config
    THEN pconf.config["security.syscalls.deny_default"]
    ELSE pconf.config["security.syscalls.blacklist_default"]

DefaultDenyTrue == ToLower(DefaultDenyValue) \in {"true", "1", "yes", "on"}

\* No interception key is set to anything but a false value.
NoInterceptRequested ==
    \A k \in InterceptKeys :
       k \in DOMAIN pconf.config =>
          ToLower(pconf.config[k]) \in {"", "false", "0", "no", "off"}

\* The configuration of the first part of C23.
BareConfig ==
    /\ NoInterceptRequested
    /\ DefaultDenySet /\ ~DefaultDenyTrue
    /\ \A k \in AllowDenyRawKeys : k \notin DOMAIN pconf.config

\* The compiler took the deny-list branch: no override and no allow list.
DenyListMode ==
    /\ TextGet(pconf.config, "raw.seccomp") = <<>>
    /\ TextGet(pconf.config, "security.syscalls.allow") = <<>>
    /\ TextGet(pconf.config, "security.syscalls.whitelist") = <<>>

\* The baseline denials stand in the text, as the block of lines they are.
BaselineBlock ==
    << "reject_force_umount  # comment this to allow umount -f;  not recommended", NL,
       "[all]", NL, "kexec_load errno 38", NL, "open_by_handle_at errno 38", NL,
       "init_module errno 38", NL, "finit_module errno 38", NL,
       "delete_module errno 38", NL >>

HasBlock(text, block) ==
    \E i \in 1..Len(text) :
       /\ i + Len(block) - 1 <= Len(text)
       /\ SubSeq(text, i, i + Len(block) - 1) = block

LinesOf(text, rule) ==
    {i \in 1..Len(text) : /\ text[i] = rule
                          /\ (i = 1 \/ text[i - 1] = NL)
                          /\ (i = Len(text) \/ text[i + 1] = NL)}

ModeLines(text) ==
    UNION {LinesOf(text, m) : m \in {"allowlist", "whitelist", "denylist", "blacklist"}}

AllowListConfigured ==
    \/ TextGet(pconf.config, "security.syscalls.allow") # <<>>
    \/ TextGet(pconf.config, "security.syscalls.whitelist") # <<>>

\* The entries of security.syscalls.deny (or blacklist), as lines of a text.
DenyEntries ==
    {l \in {"ptrace"} : \E k \in {"security.syscalls.deny", "security.syscalls.blacklist"} :
                           LinesOf(TextGet(pconf.config, k), l) # {}}

StderrErrno(out) == Atoi(out.stderr)

\* What C25 expects in the reply after a run of the bridge.
ExpectedAfterBridge(out) ==
    IF out.exit0 THEN 0
    ELSE IF ~StderrErrno(out).ok \/ StderrErrno(out).n = 55 THEN -1
    ELSE -StderrErrno(out).n

\* The run is a mknod that ends with the ENOMEDIUM sentinel, which the
\* emulator answers by inserting the device instead.
MknodSentinel(b, k) ==
    /\ b.ops[k].a.sub = "mknod"
    /\ ~b.ops[k].data.exit0
    /\ StderrErrno(b.ops[k].data).ok /\ StderrErrno(b.ops[k].data).n = 123

\* C25: after a run of the bridge (mknod, setxattr, mount or
\* sched_setscheduler) the reply error is 0 when the child exited zero, and
\* otherwise the negated errno parsed from its error stream, -EPERM for
\* ENOANO or an unparsable stream.
C25_BridgeErrnoInReply ==
    \A i \in 1..Len(frames) :
       \A k \in Calls(frames[i], {"bridge"}) :
          ~MknodSentinel(frames[i], k) =>
             \A r \in DOMAIN frames[i].replies :
                /\ frames[i].replies[r].resp.error = ExpectedAfterBridge(frames[i].ops[k].data)
                /\ ~frames[i].ops[k].data.exit0 => ~HasContinue(frames[i].replies[r].resp)

\* C26: no frame that passes validation makes its worker panic, whatever
\* its arguments and whatever the target's memory and /proc hold, and the
\* process is never taken down: the receive loop keeps serving.
C26_NoPanicOnAnyFrame ==
    /\ conn # "crashed"
    /\ \A i \in 1..Len(frames) :
          (Received(frames[i]) /\ ~Malformed(frames[i])) =>
             /\ ~frames[i].panic
             /\ frames[i].pc # "dead"

\* The goroutine that allocated or was handed the bundle has returned.
OwnerReturned(b) == b.pc \in {"done", "dead", "leaked"}

\* C27: every bundle the receive loop allocates is released exactly once,
\* after the reply of a valid frame, after the empty reply of an invalid
\* one, and when the receive fails; it is never released twice and no step
\* of a worker follows its release.
C27_BundleReleasedOnce ==
    \A i \in 1..Len(frames) :
       /\ frames[i].freed <= 1
       /\ frames[i].freed = 1 => frames[i].pc \in {"done", "dead"}
       /\ OwnerReturned(frames[i]) => frames[i].freed = 1

\* The names that occur in a list of aliases.
NamesOf(a) == {a[i].Name : i \in 1..Len(a)}

\* C28: IsAliasesSubset(a1, a2) is true exactly when every alias of a1
\* occurs in a2, aliases being compared by name; one alias of a1 that is
\* missing from a2 makes it false.
C28_AliasesSubset ==
    pout.done => (pout.result <=> NamesOf(pconf.a1) \subseteq NamesOf(pconf.a2))

\* C28 witness: the call with a1 = foo, bar and a2 = foo, baz has returned
\* false.
C28_Witness ==
    /\ pout.done /\ ~pout.result
    /\ pconf.a1 = << [Name |-> "foo"], [Name |-> "bar"] >>
    /\ pconf.a2 = << [Name |-> "foo"], [Name |-> "baz"] >>

\* What C29 says of the bridge and the insert for one notification.
BridgeOnceThenInsert(b) ==
    /\ Cardinality(Calls(b, {"bridge"})) = 1
    /\ Cardinality(Calls(b, {"insert"})) <= 1
    /\ \A k \in Calls(b, {"bridge"}) :
          /\ b.ops[k].a.sub = "mknod"
          /\ IF ExpectedAfterBridge(b.ops[k].data) = -123
             THEN /\ Cardinality(Calls(b, {"insert"})) = 1
                  /\ \A n \in Calls(b, {"insert"}) : \A r \in DOMAIN b.replies :
                        b.replies[r].resp.error = IF b.ops[n].a = "ok" THEN 0 ELSE -1
             ELSE /\ Calls(b, {"insert"}) = {}
                  /\ \A r \in DOMAIN b.replies :
                        b.replies[r].resp.error = ExpectedAfterBridge(b.ops[k].data)

\* The emulation got as far as the bridge: the dirfd of a mknodat is
\* AT_FDCWD, the path was read and the caller's ids were obtained.
MknodPrepared(b) ==
    /\ b.sc = INCUS_SECCOMP_NOTIFY_MKNODAT => Arg(b.req, 0).lo = -100
    /\ \E k \in Calls(b, {"pread"}) : b.ops[k].a = "ok"
    /\ GotIds(b) # {}

\* C29 as stated: for a mknod or mknodat notification with an allowed
\* device the bridge is invoked exactly once, with subcommand mknod; the
\* device is inserted, once, only after a bridge result of -ENOMEDIUM, the
\* reply then being 0 when the insert succeeds and -EPERM when it fails;
\* after any other bridge result nothing is inserted and the reply is the
\* bridge result.
C29_MknodBridgeThenInsert ==
    \A i \in 1..Len(frames) :
       (IsMknod(frames[i]) /\ InAllowSet(frames[i])) => BridgeOnceThenInsert(frames[i])

\* C29 amended: the same, for a notification whose emulation gets as far as
\* the bridge; for every other one with an allowed device neither the
\* bridge nor the insert is called.
C29_MknodBridgeThenInsertPrepared ==
    \A i \in 1..Len(frames) :
       (IsMknod(frames[i]) /\ InAllowSet(frames[i])) =>
          IF MknodPrepared(frames[i]) THEN BridgeOnceThenInsert(frames[i])
          ELSE Calls(frames[i], {"bridge", "insert"}) = {}

\* C29 witness: a mknod of an allowed device, the bridge ended with
\* ENOMEDIUM, the insert failed, and the reply has been sent.
C29_Witness ==
    \E i \in 1..Len(frames) :
       /\ IsMknod(frames[i]) /\ InAllowSet(frames[i]) /\ MknodPrepared(frames[i])
       /\ \E k \in Calls(frames[i], {"bridge"}) :
             ExpectedAfterBridge(frames[i].ops[k].data) = -123
       /\ \E n \in Calls(frames[i], {"insert"}) : frames[i].ops[n].a = "err"
       /\ frames[i].replies # <<>>

\* A mknodat whose dirfd, the low half of args[0] as a signed 32-bit
\* value, is not AT_FDCWD.
MknodatOtherDir(b) ==
    b.dispatched /\ b.sc = INCUS_SECCOMP_NOTIFY_MKNODAT /\ Arg(b.req, 0).lo # -100

\* C30: a mknodat whose dirfd is not AT_FDCWD never reaches the bridge,
\* whatever its device; nothing is read from the target's memory for it,
\* and it is answered with error = -EINVAL in strict mode, also for a
\* device outside the allow-set, and with error 0 and CONTINUE in
\* permissive mode.
C30_MknodatOtherDirRefused ==
    \A i \in 1..Len(frames) :
       MknodatOtherDir(frames[i]) =>
          /\ Calls(frames[i], {"bridge", "insert", "pread", "taskids"}) = {}
          /\ \A k \in DOMAIN frames[i].replies :
                IF os.SeccompListenerContinue
                THEN /\ frames[i].replies[k].resp.error = 0
                     /\ frames[i].replies[k].resp.flags = seccompUserNotifFlagContinue
                ELSE /\ frames[i].replies[k].resp.error = -EINVAL
                     /\ frames[i].replies[k].resp.flags = 0

\* C30 witness: in strict mode a mknodat with dirfd 3 for a device outside
\* the allow-set has been answered.
C30_Witness ==
    \E i \in 1..Len(frames) :
       /\ MknodatOtherDir(frames[i]) /\ ~InAllowSet(frames[i])
       /\ ~os.SeccompListenerContinue
       /\ frames[i].replies # <<>>


\* The caller is a 32-bit x86 program on a 64-bit x86 instance.
Caller32On64(b) ==
    /\ ~findPID(b.msg.monitor_pid).err
    /\ findPID(b.msg.monitor_pid).c.arch = ARCH_64BIT_INTEL_X86
    /\ b.req.arch = AUDIT_ARCH_I386

\* C31: every sysinfo answer written back uses the 32-bit layout with the
\* memory unit 4096 exactly when the instance is 64-bit x86 and the request's
\* audit architecture is i386, and the native layout with unit 1 otherwise;
\* the layout and the unit never disagree.
C31_SysinfoLayoutUnitAgree ==
    \A i \in 1..Len(frames) :
       IsSysinfo(frames[i]) =>
          \A k \in SysinfoWritten(frames[i]) :
             LET w == frames[i].ops[k].a
             IN  /\ Caller32On64(frames[i]) => w.layout = "native32" /\ w.unit = 4096
                 /\ ~Caller32On64(frames[i]) => w.layout = "native" /\ w.unit = 1

\* An i386 sysinfo was answered for a 64-bit x86 instance with the 32-bit
\* layout in pages.
C31_Witness ==
    \E i \in 1..Len(frames) :
       /\ IsSysinfo(frames[i]) /\ Caller32On64(frames[i])
       /\ \E k \in SysinfoWritten(frames[i]) :
             frames[i].ops[k].a.layout = "native32" /\ frames[i].ops[k].a.unit = 4096

\* An i386 sysinfo was answered for an instance that is not 64-bit x86 with
\* the native layout in bytes.
C31_WitnessNative ==
    \E i \in 1..Len(frames) :
       /\ IsSysinfo(frames[i]) /\ ~Caller32On64(frames[i])
       /\ frames[i].req.arch = AUDIT_ARCH_I386
       /\ \E k \in SysinfoWritten(frames[i]) : frames[i].ops[k].a.layout = "native"

\* C32: the free RAM written back never exceeds the total RAM, whatever the
\* cgroup's limit, usage and cache are, usage plus cache above the limit
\* included: the subtraction total - usage - cache does not wrap around.
C32_FreeramWithinTotalram ==
    \A i \in 1..Len(frames) :
       IsSysinfo(frames[i]) =>
          \A k \in SysinfoWritten(frames[i]) :
             Uint64LessEq(frames[i].ops[k].a.freeram, frames[i].ops[k].a.totalram)

\* The positions of the trace at which the notification id was checked,
\* with the given outcome.
IdValidChecks(b, outcome) ==
    {k \in DOMAIN b.ops : b.ops[k].op = "ioctl_id_valid" /\ b.ops[k].a = outcome}

\* The privileged actions of the bpf emulator.
PrivilegedBpfCalls(b) == Calls(b, {"pidfd_getfd", "bpf", "ioctl_addfd"})

\* What handle_bpf_syscall returned.
BpfReturned(b) == {b.ops[k].a : k \in Calls(b, {"handle_bpf_syscall"})}

\* C33: in the bpf emulation pidfd_getfd, the host bpf() and the ADDFD ioctl
\* happen only after a successful NOTIF_ID_VALID check of that notification;
\* when the check fails no privileged action is performed and the reply
\* carries the negative errno of the ioctl.
C33_BpfIdValidBeforePrivileged ==
    \A i \in 1..Len(frames) :
       IsBpf(frames[i]) =>
          /\ \A k \in PrivilegedBpfCalls(frames[i]) :
                \E j \in IdValidChecks(frames[i], "ok") : j < k
          /\ IdValidChecks(frames[i], "err") # {} =>
                /\ PrivilegedBpfCalls(frames[i]) = {}
                /\ \A k \in DOMAIN frames[i].replies :
                      /\ frames[i].replies[k].resp.error < 0
                      /\ frames[i].replies[k].resp.error \in BpfReturned(frames[i])

\* The ordering half of C33 alone: no privileged action without an earlier
\* successful check, none at all after a failed one.
C33_OrderingOnly ==
    \A i \in 1..Len(frames) :
       IsBpf(frames[i]) =>
          /\ \A k \in PrivilegedBpfCalls(frames[i]) :
                \E j \in IdValidChecks(frames[i], "ok") : j < k
          /\ IdValidChecks(frames[i], "err") # {} => PrivilegedBpfCalls(frames[i]) = {}

\* FindTGID parsed the given thread-group id before position k of the trace.
TgidFound(b, k, tgid) ==
    \E j \in Calls(b, {"findtgid"}) : j < k /\ b.ops[j].a = tgid

\* The leader checks of an attach or detach came out as given.
LeaderChecked(b, shared, alive) ==
    /\ \E k \in Calls(b, {"filetable_shared"}) : b.ops[k].a = shared
    /\ \E k \in Calls(b, {"process_still_alive"}) : b.ops[k].a = alive

\* C34: without thread pidfds the tgid handed to handle_bpf_syscall is the
\* Tgid FindTGID parsed, and an attach or detach from a thread that is not
\* the leader reaches the host bpf() only when the file table is shared with
\* the leader and the leader is alive.
C34_BpfOpensLeader ==
    \A i \in 1..Len(frames) :
       (IsBpf(frames[i]) /\ ~os.PidFdsThread) =>
          \A k \in Calls(frames[i], {"handle_bpf_syscall"}) :
             /\ TgidFound(frames[i], k, frames[i].ops[k].data.tgid)
             /\ (/\ frames[i].ops[k].data.tgid # frames[i].ops[k].data.pid_target
                 /\ BpfCmd(frames[i]) \in {BPF_PROG_ATTACH, BPF_PROG_DETACH}
                 /\ Calls(frames[i], {"bpf"}) # {})
                => LeaderChecked(frames[i], TRUE, TRUE)

IsMountCall(b) == b.dispatched /\ b.sc = INCUS_SECCOMP_NOTIFY_MOUNT

\* The instance a frame's monitor belongs to, from the daemon's registry.
InstanceOf(b) == Instances[b.msg.monitor_pid]

\* The filesystem type read from the target, "" when none was read.
FstypeRead(b) ==
    IF \E k \in DOMAIN b.ops : b.ops[k].op = "pread" /\ b.ops[k].a = "fstype"
    THEN b.ops[CHOOSE k \in DOMAIN b.ops : b.ops[k].op = "pread" /\ b.ops[k].a = "fstype"].data
    ELSE ""

\* The entries of security.syscalls.intercept.mount.fuse and .allowed that
\* were set: an unset key splits into one empty entry.
FuseSet(mc) == {mc.fuse[k] : k \in DOMAIN mc.fuse} \ {<< "" >>}

AllowedSet(mc) == {mc.allowed[k] : k \in DOMAIN mc.allowed} \ {""}

\* The FUSE binaries the configuration names for a filesystem.
FuseBinaries(mc, fstype) == {e[2] : e \in {x \in FuseSet(mc) : Len(x) = 2 /\ x[1] = fstype}}

\* The filter configuration is invalid: a fuse entry is not of the form
\* filesystem=binary, or a filesystem is in both lists.
MountFilterInvalid(mc) ==
    \/ \E e \in FuseSet(mc) : Len(e) # 2
    \/ \E fs \in AllowedSet(mc) : FuseBinaries(mc, fs) # {}

\* The forkmount invocations of a frame.
MountBridges(b) == {k \in DOMAIN b.ops : b.ops[k].op = "bridge"}

\* C35: the mount emulator invokes the bridge only for a filesystem type
\* listed in mount.allowed or mapped in mount.fuse, in the FUSE form exactly
\* when the type maps to a FUSE binary and in the native form otherwise;
\* with the type in neither list, or an invalid filter configuration, the
\* bridge is never invoked and the reply is (0, CONTINUE).
C35_MountFilter ==
    \A i \in 1..Len(frames) :
       IsMountCall(frames[i]) =>
          LET mc == InstanceOf(frames[i]).mount
              fs == FstypeRead(frames[i])
              listed == fs \in AllowedSet(mc)
              mapped == FuseBinaries(mc, fs) # {}
          IN  /\ \A k \in MountBridges(frames[i]) :
                    /\ listed \/ mapped
                    /\ frames[i].ops[k].a.fuse = 1 <=> mapped
                    /\ frames[i].ops[k].a.fuse = 1 =>
                          frames[i].ops[k].a.fuseBinary \in FuseBinaries(mc, fs)
                    /\ frames[i].ops[k].a.fuse = 0 => frames[i].ops[k].a.fstype = fs
              /\ (~(listed \/ mapped) \/ MountFilterInvalid(mc)) =>
                    /\ MountBridges(frames[i]) = {}
                    /\ \A k \in DOMAIN frames[i].replies :
                          /\ frames[i].replies[k].resp.error = 0
                          /\ HasContinue(frames[i].replies[k].resp)

\* A mount of a FUSE-mapped filesystem went to the bridge in the FUSE form.
C35_Witness ==
    \E i \in 1..Len(frames) :
       /\ IsMountCall(frames[i]) /\ frames[i].pc = "done"
       /\ FuseBinaries(InstanceOf(frames[i]).mount, FstypeRead(frames[i])) # {}
       /\ \E k \in MountBridges(frames[i]) : frames[i].ops[k].a.fuse = 1

\* A mount of a filesystem that is in both lists was answered with CONTINUE
\* and no bridge call.
C35_WitnessInvalid ==
    \E i \in 1..Len(frames) :
       /\ IsMountCall(frames[i]) /\ frames[i].pc = "done"
       /\ FstypeRead(frames[i]) \in AllowedSet(InstanceOf(frames[i]).mount)
       /\ FuseBinaries(InstanceOf(frames[i]).mount, FstypeRead(frames[i])) # {}
       /\ MountBridges(frames[i]) = {}
       /\ Len(frames[i].replies) = 1

\* A mount of an allowed filesystem went to the bridge in the native form.
C35_WitnessNative ==
    \E i \in 1..Len(frames) :
       /\ IsMountCall(frames[i]) /\ frames[i].pc = "done"
       /\ FstypeRead(frames[i]) \in AllowedSet(InstanceOf(frames[i]).mount)
       /\ \E k \in MountBridges(frames[i]) : frames[i].ops[k].a.fuse = 0

\* The mount data read from the target, empty when no data was read.
DataRead(b) ==
    IF \E k \in DOMAIN b.ops : b.ops[k].op = "pread" /\ b.ops[k].a = "data"
    THEN b.ops[CHOOSE k \in DOMAIN b.ops : b.ops[k].op = "pread" /\ b.ops[k].a = "data"].data
    ELSE <<>>

\* An option of the mount data that gives a uid or a gid.
IsIdOption(o) == Len(o) >= 2 /\ o[1] \in {"uid", "gid"}

\* The id an option gives is not a number, or is not mapped.
BadIdOption(idmap, o) ==
    IsIdOption(o) /\ (~Atoi(o[2]).ok \/ ShiftIntoNS(idmap, Atoi(o[2]).n) < 0)

\* The caller's host ids, as TaskIDs returned them.
HostIds(b) == b.ops[CHOOSE k \in DOMAIN b.ops : b.ops[k].op = "taskids"].a

\* C36: for a hugetlbfs mount every numeric uid= and gid= of the data is
\* replaced by its shifted value; when a value is not numeric or its shift is
\* negative the bridge is never invoked with the original data; when the data
\* has no uid= (gid=) the caller's host uid (gid) is appended.
C36_HugetlbfsIds ==
    \A i \in 1..Len(frames) :
       (IsMountCall(frames[i]) /\ FstypeRead(frames[i]) = "hugetlbfs") =>
          \A k \in MountBridges(frames[i]) :
             LET d == DataRead(frames[i])
                 sent == frames[i].ops[k].a.data
                 idmap == InstanceOf(frames[i]).idmap
                 keys == {d[n][1] : n \in {m \in DOMAIN d : IsIdOption(d[m])}}
             IN  /\ \A n \in DOMAIN d : ~BadIdOption(idmap, d[n])
                 /\ Len(sent) >= Len(d)
                 /\ \A n \in DOMAIN d :
                       IF IsIdOption(d[n])
                       THEN sent[n] = << d[n][1], Itoa(ShiftIntoNS(idmap, Atoi(d[n][2]).n)) >>
                       ELSE sent[n] = d[n]
                 /\ "uid" \notin keys =>
                       \E n \in DOMAIN sent : sent[n] = << "uid", Itoa(HostIds(frames[i]).uid) >>
                 /\ "gid" \notin keys =>
                       \E n \in DOMAIN sent : sent[n] = << "gid", Itoa(HostIds(frames[i]).gid) >>

\* The frame was received whole and its handler has not sent a reply yet.
AwaitingReply(b) == b.pc \notin {"leaked", "done"} /\ b.replies = <<>>

\* C37: a connection has one receive loop, so frames are received one at a
\* time and in order, and the loop does not wait for the handlers it started:
\* while the connection is open the next frame can be received whatever the
\* earlier handlers are doing.
C37_ReceiverNeverWaits ==
    /\ [](conn = "open" /\ Len(frames) < MaxFrames => ENABLED Receive)
    /\ [][/\ Len(frames') <= Len(frames) + 1
          /\ Len(frames') >= Len(frames)
          /\ Len(frames') = Len(frames) + 1 => conn = "open"]_vars

\* The second frame has been answered while the first, received before it,
\* is still without a reply.
C37_Witness ==
    /\ Len(frames) >= 2
    /\ AwaitingReply(frames[1])
    /\ frames[2].dispatched /\ frames[2].replies # <<>>

\* Interception is needed: the instance is unprivileged, the daemon does not
\* run in a user namespace, and some intercept key is neither false nor empty.
InterceptNeeded ==
    /\ Unprivileged
    /\ \E k \in InterceptKeys :
          /\ k \in DOMAIN pconf.config
          /\ ToLower(pconf.config[k]) \notin {"", "false", "0", "no", "off"}

\* The positions of a text at which an element stands.
PositionsOf(text, rule) == {n \in 1..Len(text) : text[n] = rule}

\* The positions of the notify rules of every category.
NotifyPositions(text) ==
    UNION {LinesOf(text, l) : l \in UNION {NotifyLines(k) : k \in InterceptKeys}}

AntiEscapeRules ==
    {"seccomp errno 22 [1,2146435072,SCMP_CMP_MASKED_EQ,2146435072]",
     "seccomp errno 22 [1,8,SCMP_CMP_MASKED_EQ,8]"}

NewMountApiDenials ==
    {"fsopen errno 38", "fsconfig errno 38", "fsinfo errno 38", "fsmount errno 38",
     "fspick errno 38", "open_tree errno 38", "move_mount errno 38", "openat2 errno 38"}

\* A profile was compiled from a configuration without a raw override.
CompiledNonRaw ==
    pout.compiled /\ pout.cerr = "" /\ TextGet(pconf.config, "raw.seccomp") = <<>>

C38_WitnessMount ==
    /\ CompiledNonRaw /\ InterceptNeeded
    /\ CategoryEnabled("security.syscalls.intercept.mount")
    /\ \A d \in NewMountApiDenials : HasLine(pout.policy, d)

\* run has returned out of the select.
HookAnswered == pout.pc = "returned" /\ pout.via = "response"

HookTimedOut == pout.pc = "returned" /\ pout.via = "timeout"

\* The request goroutine is never stuck at its send, and ends once the
\* query has returned; run leaves the select, after at most the timeout.
HookNeverStuck ==
    /\ [](pout.gpc = "send" => ENABLED HookSend)
    /\ (pout.gpc = "send") ~> (pout.gpc = "exited")
    /\ (pout.pc \in {"spawned", "select"}) ~> (pout.pc = "returned")
    /\ [](pout.pc = "select" => pout.waited <= HookTimeout)
    /\ [](HookTimedOut => /\ pout.waited = HookTimeout
                          /\ pout.ret = "Hook didn't finish within 30s")

\* C39 as stated: callhook returns within the timeout, with the outcome of
\* the daemon's answer when that arrives first and with the error "Hook
\* didn't finish within 30s" otherwise; the request goroutine can always
\* deliver its result without blocking and ends once the query has returned,
\* the timeout having fired or not.
C39_CallhookTimeout ==
    /\ HookNeverStuck
    /\ [](HookAnswered => pout.ret = pconf.answer)

\* C39 with the reboot rule: a successful answer to the stop hook with
\* LXC_TARGET=reboot is returned as the error "Reboot must be handled by
\* Incus"; every other answer is returned as it is.
C39_CallhookTimeoutReboot ==
    /\ HookNeverStuck
    /\ [](HookAnswered =>
            pout.ret = IF /\ pconf.answer = "" /\ pconf.nargs \in {3, 4}
                          /\ pconf.hook = "stop" /\ pconf.lxcTarget = "reboot"
                       THEN "Reboot must be handled by Incus"
                       ELSE pconf.answer)

\* The timeout fired, run returned its error, and the request goroutine
\* has since delivered the daemon's answer into the channel and ended.
C39_Witness ==
    /\ HookTimedOut
    /\ pout.gpc = "exited" /\ Len(pout.chan) = 1

\* The elements of a list of indexes.
IndexSet(l) == {l[k] : k \in DOMAIN l}

Ascending(l) == \A j, k \in DOMAIN l : j < k => l[j] < l[k]

\* Some snapshot of the list has the name of x; one of that name differs
\* from x in ID or creation date.
HasName(snaps, x) == \E k \in DOMAIN snaps : snaps[k].Name = x.Name

DiffersFromNamesake(snaps, x) ==
    \E k \in DOMAIN snaps :
       /\ snaps[k].Name = x.Name
       /\ (snaps[k].ID # x.ID \/ snaps[k].CreationDate # x.CreationDate)

\* The target indexes to delete, by the rule of the claim.
ToDelete ==
    {j - 1 : j \in {k \in DOMAIN pconf.target :
                      \/ ~HasName(pconf.source, pconf.target[k])
                      \/ DiffersFromNamesake(pconf.source, pconf.target[k])}}

\* The creation date of the latest of a set of snapshots, the zero time
\* when there is none.
LatestOf(S) == IF S = {} THEN ZeroTime ELSE CHOOSE d \in S : \A e \in S : e <= d

LatestTarget == LatestOf({pconf.target[k].CreationDate : k \in DOMAIN pconf.target})

\* The latest of the target snapshots that stay: those the source has with
\* the same ID and creation date.
LatestKeptTarget ==
    LatestOf({pconf.target[k].CreationDate :
                k \in {j \in DOMAIN pconf.target : (j - 1) \notin ToDelete}})

\* C40 as stated: the delete list holds exactly the target indexes whose
\* name no source snapshot has or whose namesake in the source differs in ID
\* or creation date; the sync list holds exactly the source indexes that are
\* not in the target or differ from their namesake there, less, with
\* excludeOlder, those earlier than the latest target snapshot; both lists
\* ascend without duplicates.
C40_CompareSnapshots ==
    pout.done =>
       /\ IndexSet(pout.deleteFromTarget) = ToDelete
       /\ IndexSet(pout.syncFromSource)
             = {i - 1 : i \in {k \in DOMAIN pconf.source :
                   /\ \/ ~HasName(pconf.target, pconf.source[k])
                      \/ DiffersFromNamesake(pconf.target, pconf.source[k])
                   /\ ~(pconf.excludeOlder
                        /\ pconf.source[k].CreationDate < LatestTarget)}}
       /\ Ascending(pout.deleteFromTarget) /\ Ascending(pout.syncFromSource)

\* C40 with the exclusion as the code applies it: with excludeOlder a source
\* snapshot that is not in the target is left out unless it is later than
\* the latest target snapshot that stays; a source snapshot that differs
\* from its namesake in the target is synced whatever its date.
C40_CompareSnapshotsKept ==
    pout.done =>
       /\ IndexSet(pout.deleteFromTarget) = ToDelete
       /\ IndexSet(pout.syncFromSource)
             = {i - 1 : i \in {k \in DOMAIN pconf.source :
                   \/ /\ ~HasName(pconf.target, pconf.source[k])
                      /\ (pconf.excludeOlder
                             => pconf.source[k].CreationDate > LatestKeptTarget)
                   \/ DiffersFromNamesake(pconf.target, pconf.source[k])}}
       /\ Ascending(pout.deleteFromTarget) /\ Ascending(pout.syncFromSource)

=============================================================================
